---------------------------- MODULE Spec2Model ----------------------------
(***************************************************************************)
(* A model of the resource pipeline of src/agent.py (class GeminiWebAgent) *)
(* and of the endpoints of src/main.py that call it.                       *)
(*                                                                         *)
(* Python strings are TLA+ strings; TLC evaluates Len, SubSeq and \o on    *)
(* them, so substring tests, split, strip and lower are computed character *)
(* by character as the Python methods compute them.                        *)
(*                                                                         *)
(* Specifications:                                                         *)
(*   SpecProfile     analyze_user_profile, one loop iteration per step     *)
(*   SpecQueries     generate_search_queries                               *)
(*   SpecCategorize  categorize_resources                                  *)
(*   SpecDiscover    search_geeksforgeeks, one anchor per step             *)
(*   SpecScrape      search_and_scrape, one URL per step                   *)
(*   Spec            generate_personalized_resources, one query per step   *)
(*   SpecRuns        two concurrent pipeline calls on the singleton agent  *)
(*   SpecApi         the store, generate and home endpoints                *)
(***************************************************************************)
EXTENDS Integers, Sequences, FiniteSets, TLC

VARIABLES
    pc,              \* position of the running handler
    user_answers,    \* argument of analyze_user_profile
    idx,             \* 1-based position of analyze_user_profile's for loop
    profile,         \* the profile dict
    genOutcome,      \* what self.model.generate_content did in generate_search_queries
    search_queries,  \* the list generate_search_queries returned
    resources,       \* argument of categorize_resources
    catOutcome,      \* what the generative call did in categorize_resources
    categories,      \* the dict categorize_resources returned
    query,           \* argument of search_geeksforgeeks and search_and_scrape
    max_results,     \* argument of search_geeksforgeeks and search_and_scrape
    candidate_links, \* the anchors soup.select returned, as attribute dicts
    linkIdx,         \* 1-based position of search_geeksforgeeks's for loop
    urls,            \* search_geeksforgeeks's list of retained URLs
    seen,            \* search_geeksforgeeks's set of retained URLs
    searchOutcome,   \* what the fetch of the search page did in search_and_scrape
    gfg_urls,        \* search_and_scrape's list of tier-1 URLs
    urlIdx,          \* 1-based position of search_and_scrape's for loop
    metaLog,         \* the calls of create_resource_metadata: arguments, outcome, return
    scraped,         \* search_and_scrape's local list `resources`
    qIdx,            \* 1-based position of the pipeline's loop over search_queries
    all_resources,   \* the pipeline's accumulator
    now,             \* the clock datetime.utcnow() reads
    result,          \* what process_user_and_generate_resources returned or raised
    dbOutcome,       \* what db.collection('home').add did
    home,            \* the documents of the 'home' collection
    returned,        \* what generate_personalized_resources returned or raised
    user_id,         \* argument of generate_personalized_resources
    gemini_agent,    \* the module's singleton agent
    loop,            \* the run the event loop is executing, if any
    run,             \* the locals of each process_user_and_generate_resources call
    users,           \* the documents of the 'users' collection
    submissions,     \* the documents of the 'question_answers' subcollections
    response,        \* the last response of an endpoint of main.py
    calls            \* the number of generate_personalized_resources calls

profileVars == <<user_answers, idx, profile>>

queryVars == <<genOutcome, search_queries>>

categorizeVars == <<resources, catOutcome, categories>>

discoverVars == <<query, max_results, candidate_links, linkIdx, urls, seen>>

scrapeVars == <<searchOutcome, gfg_urls, urlIdx, metaLog, scraped>>

pipelineVars == <<qIdx, all_resources, result>>

persistVars == <<dbOutcome, home, returned, user_id>>

runVars == <<gemini_agent, loop, run>>

apiVars == <<users, submissions, response, calls>>

vars ==
    <<pc, profileVars, queryVars, categorizeVars, discoverVars, scrapeVars,
      pipelineVars, persistVars, runVars, apiVars, now>>

----------------------------------------------------------------------------
(* Bounds of the model.                                                    *)

MaxAnswers == 2

MaxAreas == 8

MaxCompanies == 2

MaxTech == 2

MaxLines == 3

MaxLongLines == 17

MaxResources == 3
\* Longest list of anchors on a fetched search page.
MaxLinks == 3
\* Largest max_results argument.
MaxResultsArg == 3

----------------------------------------------------------------------------
(* Python str and list primitives.                                         *)

Min(S) == CHOOSE x \in S : \A y \in S : x <= y

Max(S) == CHOOSE x \in S : \A y \in S : x >= y

CharAt(s, i) == SubSeq(s, i, i)

\* Python: sub in s
Contains(sub, s) ==
    \E i \in 0..(Len(s) - Len(sub)) : SubSeq(s, i + 1, i + Len(sub)) = sub

\* The characters str.strip() removes (ASCII whitespace).
Whitespace == {" ", "\t", "\n", "\r", "\f"}

\* Python: s.strip()
Strip(s) ==
    LET keep == {i \in 1..Len(s) : CharAt(s, i) \notin Whitespace}
    IN  IF keep = {} THEN "" ELSE SubSeq(s, Min(keep), Max(keep))

RECURSIVE SplitFrom(_, _, _)
SplitFrom(s, sep, start) ==
    LET later == {i \in start..Len(s) : CharAt(s, i) = sep}
    IN  IF later = {}
        THEN <<SubSeq(s, start, Len(s))>>
        ELSE <<SubSeq(s, start, Min(later) - 1)>>
                 \o SplitFrom(s, sep, Min(later) + 1)

\* Python: s.split(sep) for a one-character sep; "".split(",") is [""].
Split(s, sep) == SplitFrom(s, sep, 1)

UpperLetters == "ABCDEFGHIJKLMNOPQRSTUVWXYZ"

LowerLetters == "abcdefghijklmnopqrstuvwxyz"

LowerChar(c) ==
    IF \E i \in 1..Len(UpperLetters) : CharAt(UpperLetters, i) = c
    THEN CharAt(LowerLetters,
                CHOOSE i \in 1..Len(UpperLetters) : CharAt(UpperLetters, i) = c)
    ELSE c

RECURSIVE Lower(_)
\* Python: s.lower()
Lower(s) ==
    IF s = "" THEN "" ELSE LowerChar(CharAt(s, 1)) \o Lower(SubSeq(s, 2, Len(s)))

\* Python: xs[:n]
Take(xs, n) == SubSeq(xs, 1, IF Len(xs) < n THEN Len(xs) ELSE n)

\* Python: d.get(key, default)
Get(d, key, default) == IF key \in DOMAIN d THEN d[key] ELSE default

\* Number of positions of xs holding x.
Count(x, xs) == Cardinality({i \in 1..Len(xs) : xs[i] = x})

RECURSIVE SeqsUpTo(_, _)
\* The sequences over S of length at most n.
SeqsUpTo(S, n) ==
    IF n = 0
    THEN {<<>>}
    ELSE LET shorter == SeqsUpTo(S, n - 1)
         IN  shorter \cup {Append(xs, x) : xs \in shorter, x \in S}

----------------------------------------------------------------------------
(* analyze_user_profile: the profile dict and the marker chain.            *)

ScalarFields ==
    {"name", "status", "education", "graduation_year", "primary_language",
     "preferred_role", "target_timeline"}

ListFields ==
    {"tech_stack", "familiar_topics", "weak_areas", "target_companies",
     "preferred_resources"}

ProfileFields == ScalarFields \cup ListFields

\* The dict literal the function starts from.
EmptyProfile ==
    [name |-> "", status |-> "", education |-> "", graduation_year |-> "",
     primary_language |-> "", tech_stack |-> <<>>, familiar_topics |-> <<>>,
     weak_areas |-> <<>>, target_companies |-> <<>>, preferred_role |-> "",
     target_timeline |-> "", preferred_resources |-> <<>>]

\* A variant that drops the empty segments.
SplitTrimDropEmpty(answer_text) ==
    LET parts == Split(answer_text, ",")
        kept  == SelectSeq(parts, LAMBDA p : Strip(p) # "")
    IN  [k \in 1..Len(kept) |-> Strip(kept[k])]

\* [x.strip() for x in answer_text.split(',')]
SplitTrim(answer_text) ==
    LET parts == Split(answer_text, ",")
    IN  [k \in 1..Len(parts) |-> Strip(parts[k])]

\* A variant in which every marker is tested with a plain `if`.
ApplyAnswerEveryMarker(p, answer) ==
    LET question_id == Get(answer, "question_id", "")
        answer_text == Get(answer, "answer", "")
        Has(m)      == Contains(m, question_id)
    IN  [f \in ProfileFields |->
            IF Has(f)
            THEN IF f \in ListFields THEN SplitTrim(answer_text) ELSE answer_text
            ELSE p[f]]

\* One iteration of the for loop: the if/elif chain over question_id.
ApplyAnswer(p, answer) ==
    LET question_id == Get(answer, "question_id", "")
        answer_text == Get(answer, "answer", "")
        Has(m)      == Contains(m, question_id)
    IN  IF Has("name") THEN [p EXCEPT !.name = answer_text]
        ELSE IF Has("status") THEN [p EXCEPT !.status = answer_text]
        ELSE IF Has("education") THEN [p EXCEPT !.education = answer_text]
        ELSE IF Has("graduation_year")
            THEN [p EXCEPT !.graduation_year = answer_text]
        ELSE IF Has("primary_language")
            THEN [p EXCEPT !.primary_language = answer_text]
        ELSE IF Has("tech_stack")
            THEN [p EXCEPT !.tech_stack = SplitTrim(answer_text)]
        ELSE IF Has("familiar_topics")
            THEN [p EXCEPT !.familiar_topics = SplitTrim(answer_text)]
        ELSE IF Has("weak_areas")
            THEN [p EXCEPT !.weak_areas = SplitTrim(answer_text)]
        ELSE IF Has("target_companies")
            THEN [p EXCEPT !.target_companies = SplitTrim(answer_text)]
        ELSE IF Has("preferred_role")
            THEN [p EXCEPT !.preferred_role = answer_text]
        ELSE IF Has("target_timeline")
            THEN [p EXCEPT !.target_timeline = answer_text]
        ELSE IF Has("preferred_resources")
            THEN [p EXCEPT !.preferred_resources = SplitTrim(answer_text)]
        ELSE p

RECURSIVE AnalyzeFrom(_, _, _)
\* The whole for loop, from position i.
AnalyzeFrom(p, answers, i) ==
    IF i > Len(answers)
    THEN p
    ELSE AnalyzeFrom(ApplyAnswer(p, answers[i]), answers, i + 1)

\* The profile analyze_user_profile builds from the answers.
ExtractProfile(answers) == AnalyzeFrom(EmptyProfile, answers, 1)

\* An answer whose value is a JSON array and not a string is written with
\* the field answer_list in place of answer. Under a marker of a list field
\* answer_text.split(',') then raises AttributeError.
SplitRaises(answer) ==
    /\ "answer_list" \in DOMAIN answer
    /\ LET probe == [question_id |-> Get(answer, "question_id", ""), answer |-> "x"]
       IN  \E f \in ListFields : ApplyAnswer(EmptyProfile, probe)[f] # <<>>

----------------------------------------------------------------------------
(* generate_search_queries.                                                *)

\* queries[:15] and fallback_queries[:15]
QueryLimit == 15

\* A variant whose filter is `if q` instead of `if q.strip()`.
ParseQueryLinesKeepBlank(text) ==
    LET lines == Split(text, "\n")
        kept  == SelectSeq(lines, LAMBDA q : q # "")
    IN  [k \in 1..Len(kept) |-> Strip(kept[k])]

\* [q.strip() for q in response.text.split('\n') if q.strip()]
ParseQueryLines(text) ==
    LET lines == Split(text, "\n")
        kept  == SelectSeq(lines, LAMBDA q : Strip(q) # "")
    IN  [k \in 1..Len(kept) |-> Strip(kept[k])]

RECURSIVE WeakAreaQueries(_, _)
\* for weak_area in profile['weak_areas']: two appends
WeakAreaQueries(areas, primary_language) ==
    IF areas = <<>>
    THEN <<>>
    ELSE <<Head(areas) \o " tutorial " \o primary_language,
           Head(areas) \o " interview questions">>
             \o WeakAreaQueries(Tail(areas), primary_language)

RECURSIVE CompanyQueries(_, _)
\* for company in profile['target_companies']: one append
CompanyQueries(companies, preferred_role) ==
    IF companies = <<>>
    THEN <<>>
    ELSE <<Head(companies) \o " " \o preferred_role \o " interview preparation">>
             \o CompanyQueries(Tail(companies), preferred_role)

RECURSIVE TechQueries(_)
\* for tech in profile['tech_stack']: one append
TechQueries(techs) ==
    IF techs = <<>>
    THEN <<>>
    ELSE <<Head(techs) \o " best practices tutorial">> \o TechQueries(Tail(techs))

\* A variant that appends only the tutorial query for a weak area.
RECURSIVE TutorialQueriesOnly(_, _)
TutorialQueriesOnly(areas, primary_language) ==
    IF areas = <<>>
    THEN <<>>
    ELSE <<Head(areas) \o " tutorial " \o primary_language>>
             \o TutorialQueriesOnly(Tail(areas), primary_language)

FallbackQueriesOnePerArea(p) ==
    TutorialQueriesOnly(p.weak_areas, p.primary_language)
        \o CompanyQueries(p.target_companies, p.preferred_role)
        \o TechQueries(p.tech_stack)

\* The except branch: fallback_queries before the [:15].
FallbackQueries(p) ==
    WeakAreaQueries(p.weak_areas, p.primary_language)
        \o CompanyQueries(p.target_companies, p.preferred_role)
        \o TechQueries(p.tech_stack)

\* What self.model.generate_content(prompt) followed by response.text can do:
\* raise (no model configured, quota, timeout, blocked response) or give text.
RaiseOutcome == [kind |-> "raise", text |-> ""]

TextOutcome(t) == [kind |-> "text", text |-> t]

\* The try/except of generate_search_queries.
GenerateSearchQueries(p, outcome) ==
    IF outcome.kind = "text"
    THEN Take(ParseQueryLines(outcome.text), QueryLimit)
    ELSE Take(FallbackQueries(p), QueryLimit)

----------------------------------------------------------------------------
(* categorize_resources.                                                   *)

CategoryNames ==
    {"weak_areas_improvement", "interview_preparation", "skill_development",
     "practice_problems", "technology_tutorials", "general_learning"}

\* categories = {...}: six empty lists.
NoCategories ==
    [weak_areas_improvement |-> <<>>, interview_preparation |-> <<>>,
     skill_development |-> <<>>, practice_problems |-> <<>>,
     technology_tutorials |-> <<>>, general_learning |-> <<>>]

\* A JSON value of the parsed response: its type and, for a string, its text.
JsonString(text) == [type |-> "string", text |-> text]

JsonNumber == [type |-> "number", text |-> "1"]

JsonArray == [type |-> "array", text |-> "[]"]

\* Python raises TypeError on `x in dict` for a list or a dict x.
Hashable(v) == v.type \notin {"array", "object"}

\* category in categories
IsCategoryKey(v) == v.type = "string" /\ v.text \in CategoryNames

\* The if/elif chain of the keyword fallback, for one title.
KeywordCategory(title, p) ==
    LET lower == Lower(title)
    IN  IF \E i \in 1..Len(p.weak_areas) : Contains(p.weak_areas[i], lower)
        THEN "weak_areas_improvement"
        ELSE IF \E i \in 1..Len(p.target_companies) :
                    Contains(Lower(p.target_companies[i]), lower)
        THEN "interview_preparation"
        ELSE IF Contains("practice", lower) \/ Contains("problem", lower)
        THEN "practice_problems"
        ELSE IF \E i \in 1..Len(p.tech_stack) : Contains(Lower(p.tech_stack[i]), lower)
        THEN "technology_tutorials"
        ELSE "general_learning"

\* The except branch of json.loads: categorization[title] for every resource.
KeywordCategorization(rs, p) ==
    [t \in {rs[i].title : i \in 1..Len(rs)} |-> JsonString(KeywordCategory(t, p))]

RECURSIVE AssignFrom(_, _, _, _)
\* "Assign resources to categories", from position i; raised when
\* `category in categories` raises TypeError, with what was appended so far.
AssignFrom(cats, rs, categorization, i) ==
    IF i > Len(rs)
    THEN [cats |-> cats, raised |-> FALSE]
    ELSE LET r        == rs[i]
             category == Get(categorization, r.title, JsonString("general_learning"))
         IN  IF ~Hashable(category)
             THEN [cats |-> cats, raised |-> TRUE]
             ELSE IF IsCategoryKey(category)
             THEN AssignFrom([cats EXCEPT ![category.text] = Append(@, r)],
                             rs, categorization, i + 1)
             ELSE AssignFrom([cats EXCEPT !.general_learning = Append(@, r)],
                             rs, categorization, i + 1)

\* The prompt reads r['title'] and r['description'] of every resource.
PromptKeys == {"title", "description"}

Promptable(rs) == \A i \in 1..Len(rs) : PromptKeys \subseteq DOMAIN rs[i]

\* The names a statement of the function body binds (assignment, import, for
\* target, except target). Python makes each of them a local variable of the
\* whole function; `json` is among them because of the `import json` inside
\* the inner try.
CategorizeLocals ==
    {"categories", "categorization_prompt", "response", "json", "categorization",
     "resource", "title", "category", "e"}

\* The locals already bound when the prompt f-string is evaluated.
BoundAtPrompt == {"categories"}

\* The names the prompt f-string reads: profile[...], json.dumps(...), resources.
PromptReads == {"profile", "json", "resources"}

\* Reading a local before the statement that binds it has run raises
\* UnboundLocalError.
PromptRaisesUnbound ==
    \E n \in PromptReads \cap CategorizeLocals : n \notin BoundAtPrompt

\* What the generative capability answers when it is called:
\*   raise         self.model.generate_content raises
\*   unparseable   json.loads(response.text) raises
\*   nonobject     the response is JSON but not an object
\*   object        the response is a JSON object, `mapping`
CatOutcome(kind, mapping) == [kind |-> kind, mapping |-> mapping]

\* A variant of the outer except that returns a dict with the one key.
AllGeneralOnly(cats, rs) == [general_learning |-> rs]

\* except Exception: categories['general_learning'] = resources
AllGeneral(cats, rs) == [cats EXCEPT !.general_learning = rs]

\* The statements after the prompt: the call, the parse with its keyword
\* fallback, and the assignment loop, under the outer except.
AfterPrompt(rs, p, outcome) ==
    IF outcome.kind = "raise"
    THEN AllGeneral(NoCategories, rs)
    ELSE IF outcome.kind = "nonobject"
    THEN \* categorization.get raises AttributeError at the first resource
         IF rs = <<>> THEN NoCategories ELSE AllGeneral(NoCategories, rs)
    ELSE LET categorization ==
                 IF outcome.kind = "unparseable"
                 THEN KeywordCategorization(rs, p)
                 ELSE outcome.mapping
             done == AssignFrom(NoCategories, rs, categorization, 1)
         IN  IF done.raised THEN AllGeneral(done.cats, rs) ELSE done.cats

\* A variant in which `json` in the prompt is the module-level import.
CategorizeResourcesGlobalJson(rs, p, outcome) ==
    IF ~Promptable(rs)
    THEN AllGeneral(NoCategories, rs)
    ELSE AfterPrompt(rs, p, outcome)

\* categorize_resources, given what the generative capability would answer.
\* Building the prompt raises (UnboundLocalError on json, or KeyError on a
\* resource without title or description) before any call is made, and the
\* outer except puts every resource in general_learning.
CategorizeResources(rs, p, outcome) ==
    IF PromptRaisesUnbound \/ ~Promptable(rs)
    THEN AllGeneral(NoCategories, rs)
    ELSE AfterPrompt(rs, p, outcome)

----------------------------------------------------------------------------
(* search_geeksforgeeks and _is_valid_gfg_article_url.                     *)

\* s.startswith(prefix)
StartsWith(s, prefix) ==
    Len(s) >= Len(prefix) /\ SubSeq(s, 1, Len(prefix)) = prefix

\* s.split(sep, 1)[0] for a one-character sep
BeforeFirst(s, sep) ==
    LET at == {i \in 1..Len(s) : CharAt(s, i) = sep}
    IN  IF at = {} THEN s ELSE SubSeq(s, 1, Min(at) - 1)

\* self.resource_domains
resource_domains ==
    {"youtube.com", "medium.com", "dev.to", "stackoverflow.com", "github.com",
     "geeksforgeeks.org", "leetcode.com", "hackerrank.com", "coursera.org",
     "udemy.com", "freecodecamp.org", "w3schools.com", "tutorialspoint.com",
     "javatpoint.com"}

blocked_prefixes ==
    {"https://www.geeksforgeeks.org/tag/",
     "https://www.geeksforgeeks.org/category/",
     "https://www.geeksforgeeks.org/author/",
     "https://www.geeksforgeeks.org/page/"}

\* _is_valid_gfg_article_url
IsValidGfgArticleUrl(url) ==
    IF url = "" \/ ~Contains("geeksforgeeks.org", url)
    THEN FALSE
    ELSE IF Contains("?s=", url)
    THEN FALSE
    ELSE ~\E prefix \in blocked_prefixes : StartsWith(url, prefix)

\* Lines 296-307 without the fragment split.
NormalizeHrefKeepFragment(href) ==
    LET stripped == Strip(href)
        absolute == IF StartsWith(stripped, "//")
                    THEN "https:" \o stripped
                    ELSE stripped
    IN  IF StartsWith(absolute, "/")
        THEN "https://www.geeksforgeeks.org" \o absolute
        ELSE absolute

\* Lines 296-307: strip, make absolute, drop the fragment.
NormalizeHref(href) ==
    LET stripped == Strip(href)
        absolute == IF StartsWith(stripped, "//")
                    THEN "https:" \o stripped
                    ELSE stripped
        rooted   == IF StartsWith(absolute, "/")
                    THEN "https://www.geeksforgeeks.org" \o absolute
                    ELSE absolute
    IN  BeforeFirst(rooted, "#")

\* One iteration of the loop over candidate_links on the anchor a. The
\* result holds the list, the set and whether the loop was left by break.
DiscoverStep(us, sn, a, limit) ==
    LET href == Get(a, "href", "")
        kept == NormalizeHref(href)
    IN  IF href = "" THEN [urls |-> us, seen |-> sn, break |-> FALSE]
        ELSE IF ~IsValidGfgArticleUrl(kept)
        THEN [urls |-> us, seen |-> sn, break |-> FALSE]
        ELSE IF kept \in sn THEN [urls |-> us, seen |-> sn, break |-> FALSE]
        ELSE [urls  |-> Append(us, kept),
              seen  |-> sn \cup {kept},
              break |-> Len(us) + 1 >= limit]

RECURSIVE DiscoverFrom(_, _, _, _, _)
\* The whole loop from position i.
DiscoverFrom(us, sn, links, i, limit) ==
    IF i > Len(links)
    THEN us
    ELSE LET step == DiscoverStep(us, sn, links[i], limit)
         IN  IF step.break
             THEN step.urls
             ELSE DiscoverFrom(step.urls, step.seen, links, i + 1, limit)

\* What search_geeksforgeeks returns for the anchors of the fetched page.
SearchGeeksforgeeks(links, limit) == DiscoverFrom(<<>>, {}, links, 1, limit)

----------------------------------------------------------------------------
(* create_resource_metadata, _gfg_search_url, _basic_gfg_resource and      *)
(* search_and_scrape.                                                      *)

\* The printable ASCII characters in code order: 32 to 95 and 97 to 126
\* (the character 96 cannot be written in a string of the model).
AsciiLow == " !\"#$%&'()*+,-./0123456789:;<=>?@ABCDEFGHIJKLMNOPQRSTUVWXYZ[\\]^_"

AsciiHigh == "abcdefghijklmnopqrstuvwxyz{|}~"

\* ord(c) of a printable ASCII character
Ord(c) ==
    IF Contains(c, AsciiLow)
    THEN 31 + CHOOSE i \in 1..Len(AsciiLow) : CharAt(AsciiLow, i) = c
    ELSE 96 + CHOOSE i \in 1..Len(AsciiHigh) : CharAt(AsciiHigh, i) = c

HexDigits == "0123456789ABCDEF"

\* The characters urllib.parse.quote_plus leaves as they are.
QuoteSafe == "ABCDEFGHIJKLMNOPQRSTUVWXYZabcdefghijklmnopqrstuvwxyz0123456789_.-~"

\* quote_plus of one character
QuoteChar(c) ==
    IF c = " " THEN "+"
    ELSE IF Contains(c, QuoteSafe) THEN c
    ELSE "%" \o CharAt(HexDigits, (Ord(c) \div 16) + 1)
             \o CharAt(HexDigits, (Ord(c) % 16) + 1)

RECURSIVE QuotePlus(_)
\* urllib.parse.quote_plus(s)
QuotePlus(s) ==
    IF s = "" THEN ""
    ELSE QuoteChar(CharAt(s, 1)) \o QuotePlus(SubSeq(s, 2, Len(s)))

\* _gfg_search_url
GfgSearchUrl(q) == "https://www.geeksforgeeks.org/?s=" \o QuotePlus(q)

RECURSIVE WordsFrom(_, _, _)
\* The words of s from position i on; cur is the word being read.
WordsFrom(s, i, cur) ==
    IF i > Len(s)
    THEN IF cur = "" THEN <<>> ELSE <<cur>>
    ELSE IF CharAt(s, i) \in Whitespace
    THEN IF cur = ""
         THEN WordsFrom(s, i + 1, "")
         ELSE <<cur>> \o WordsFrom(s, i + 1, "")
    ELSE WordsFrom(s, i + 1, cur \o CharAt(s, i))

\* s.split() without arguments
Words(s) == WordsFrom(s, 1, "")

\* datetime.utcnow().isoformat() when the clock reads t seconds
Isoformat(t) ==
    "1970-01-01T00:00:" \o (IF t < 10 THEN "0" ELSE "") \o ToString(t)

\* A variant of dict.update that keeps the values the dict already has.
UpdateKeepExisting(d, e) ==
    [k \in (DOMAIN d) \cup (DOMAIN e) |-> IF k \in DOMAIN d THEN d[k] ELSE e[k]]

\* d.update(e)
Update(d, e) ==
    [k \in (DOMAIN d) \cup (DOMAIN e) |-> IF k \in DOMAIN e THEN e[k] ELSE d[k]]

\* The return value None, and a returned dict.
None == <<>>

Some(d) == <<d>>

\* url.split('/')[2] if len(url.split('/')) > 2 else 'unknown'
DomainSegment(url) ==
    LET parts == Split(url, "/")
    IN  IF Len(parts) > 2 THEN parts[3] ELSE "unknown"

\* The metadata of lines 366-374.
DomainFallbackMetadata(url, q) ==
    LET domain == DomainSegment(url)
    IN  [title          |-> q \o " - " \o domain,
         description    |-> "Learning resource about " \o q \o " from " \o domain,
         resource_type  |-> "unknown",
         difficulty     |-> "intermediate",
         estimated_time |-> 30,
         tags           |-> Words(q)]

\* The additional fields of lines 377-382.
Stamps(url, q, t) ==
    [url        |-> url,
     query      |-> q,
     created_at |-> Isoformat(t),
     source     |-> "gemini_web_agent"]

\* What the generative call of create_resource_metadata does: it raises, or
\* it returns text that is not JSON, JSON that is not an object, or a JSON
\* object (a dict of the parsed values).
MetaOutcome(kind, object) == [kind |-> kind, object |-> object]

\* create_resource_metadata: a raising call and the AttributeError of
\* metadata.update on a parsed value that is not a dict both end in the
\* outer except, which returns None.
CreateResourceMetadata(url, q, outcome, t) ==
    CASE outcome.kind = "raise" -> None
      [] outcome.kind = "text" ->
            Some(Update(DomainFallbackMetadata(url, q), Stamps(url, q, t)))
      [] outcome.kind = "nonobject" -> None
      [] outcome.kind = "object" ->
            Some(Update(outcome.object, Stamps(url, q, t)))

\* _basic_gfg_resource
BasicGfgResource(url, q, t) ==
    [title          |-> "GeeksforGeeks: " \o q,
     url            |-> url,
     description    |-> "GeeksforGeeks article explaining " \o q,
     resource_type  |-> "blog",
     difficulty     |-> "beginner",
     estimated_time |-> 20,
     tags           |-> Words(q),
     created_at     |-> Isoformat(t),
     query          |-> q,
     source         |-> "geeksforgeeks"]

\* The dict of lines 213-223.
SearchFallbackResource(q, t) ==
    [title         |-> "GeeksforGeeks search: " \o q,
     url           |-> GfgSearchUrl(q),
     description   |-> "GeeksforGeeks search results for " \o q,
     resource_type |-> "search",
     difficulty    |-> "beginner",
     tags          |-> Words(q),
     created_at    |-> Isoformat(t),
     query         |-> q,
     source        |-> "geeksforgeeks_search_fallback"]

\* What the fetch of the search page does: it raises (connection error,
\* timeout), or it returns markup whose selected anchors are links.
SearchOutcome(kind, links) == [kind |-> kind, links |-> links]

\* Lines 196-200: the tier-1 URLs.
TierOneUrls(outcome, limit) ==
    IF outcome.kind = "raise"
    THEN <<>>
    ELSE SearchGeeksforgeeks(outcome.links, limit)

\* Lines 205-208: the resource appended for one URL.
ResourceFor(url, q, outcome, t) ==
    LET resource == CreateResourceMetadata(url, q, outcome, t)
    IN  IF resource # None THEN resource[1] ELSE BasicGfgResource(url, q, t)

\* A variant without the final fallback.
WithoutSearchFallback(built, q, t) == built

\* Lines 211-226: the list search_and_scrape returns.
WithSearchFallback(built, q, t) ==
    IF built = <<>> THEN <<SearchFallbackResource(q, t)>> ELSE built

\* search_and_scrape as a whole: metaOutcomes[k] is what the generative call
\* does for the k-th URL, and the clock advances by one between two reads.
SearchAndScrape(q, limit, outcome, metaOutcomes, t) ==
    LET tier  == Take(TierOneUrls(outcome, limit), limit)
        built == [k \in 1..Len(tier) |->
                     ResourceFor(tier[k], q, metaOutcomes[k], t + k - 1)]
    IN  WithSearchFallback(built, q, t + Len(tier))

----------------------------------------------------------------------------
(* process_user_and_generate_resources and generate_personalized_resources. *)

\* max_results=3 of the pipeline's search_and_scrape calls
PipelineMaxResults == 3

\* The dict of lines 419-425.
PipelineResult(p, queries, all, cats, t) ==
    [user_profile    |-> p,
     search_queries  |-> queries,
     total_resources |-> Len(all),
     resources       |-> cats,
     generated_at    |-> Isoformat(t)]

\* What a function call ended in.
Returned(value) == [kind |-> "returned", value |-> value]

Raised(exception) == [kind |-> "raised", value |-> exception]

\* home_doc_data, lines 541-549
HomeDocData(uid, data) ==
    [user_id         |-> uid,
     user_profile    |-> data.user_profile,
     search_queries  |-> data.search_queries,
     total_resources |-> data.total_resources,
     resources       |-> data.resources,
     generated_at    |-> data.generated_at,
     created_at      |-> "SERVER_TIMESTAMP"]

\* A variant that returns the pipeline's dict as it is.
WithoutHomeDocId(data, id) == data

\* resources_data["home_doc_id"] = home_doc_id
WithHomeDocId(data, id) == Update(data, [home_doc_id |-> id])

\* What db.collection('home').add does: it stores the document under a new
\* identifier and returns it, or it raises, the document stored or not.
Added(id) == [kind |-> "added", id |-> id, written |-> TRUE]

WriteRaised(written) == [kind |-> "raise", id |-> "", written |-> written]

\* GeminiWebAgent(api_key), lines 15-59: the attributes set once by __init__.
NewAgent ==
    [model            |-> "gemini-1.5-flash",
     resource_domains |-> resource_domains]

\* get_gemini_agent, lines 515-520: the singleton is created on first use.
GetGeminiAgent(agent) == IF agent = None THEN Some(NewAgent) ELSE agent

\* A variant that puts the new resources in front of the accumulated ones.
ExtendFront(all, got) == got \o all

\* all_resources.extend(resources), line 411
Extend(all, got) == all \o got

\* A variant that keeps the accumulator on the shared agent: every run's
\* list receives the resources.
AccumulateOnAgent(runs, r, got) ==
    [s \in DOMAIN runs |-> [runs[s] EXCEPT !.all_resources = Extend(@, got)]]

\* Line 411 in the call r: all_resources is a local of that call.
Accumulate(runs, r, got) ==
    [runs EXCEPT ![r] = [@ EXCEPT !.all_resources = Extend(@, got)]]

\* The concatenation of a list of lists.
RECURSIVE Flatten(_)
Flatten(lists) ==
    IF lists = <<>> THEN <<>> ELSE Head(lists) \o Flatten(Tail(lists))

\* The resources of the first n queries of a pipeline call that runs on its
\* own: lines 408-411 with search_and_scrape as a whole.
AloneResources(queries, heard, n) ==
    Flatten([i \in 1..n |->
                SearchAndScrape(queries[i], PipelineMaxResults,
                                heard.queries[i].search,
                                heard.queries[i].metas,
                                heard.queries[i].at)])

\* process_user_and_generate_resources, lines 390-425, run on its own on
\* the answers with these collaborator responses.
Alone(answers, heard) ==
    LET p       == ExtractProfile(answers)
        queries == GenerateSearchQueries(p, heard.gen)
        all     == AloneResources(queries, heard, Len(queries))
    IN  PipelineResult(p, queries, all,
                       CategorizeResources(all, p, heard.cat), heard.at)

\* A step of a call: what it did and for which query (0: none).
Event(ev, q) == [ev |-> ev, q |-> q]

----------------------------------------------------------------------------
(* Inputs of the model.                                                    *)

AnswerTexts == {"DSA, System Design", " a,, b ,"}

QuestionIds ==
    {"onboarding_" \o f : f \in ProfileFields}
        \cup {"tech_stack_name", "favorite_color"}

\* Answer dicts: with both keys, without "answer", without "question_id".
AnswerPool ==
    {[question_id |-> q, answer |-> a] : q \in QuestionIds, a \in AnswerTexts}
        \cup {[question_id |-> q] : q \in {"onboarding_name", "onboarding_weak_areas"}}
        \cup {[answer |-> "DSA, System Design"]}

\* The answers of the scenario "weak_areas = DSA, System Design".
WeakAreasOnlyAnswers ==
    <<[question_id |-> "onboarding_weak_areas", answer |-> "DSA, System Design"]>>

AreaNames ==
    <<"DSA", "System Design", "Graphs", "DP", "Trees", "SQL", "OS", "Networks", "Heaps">>

CompanyNames == <<"Google", "Amazon", "Meta">>

TechNames == <<"Python", "React", "Go">>

\* The first n names of a pool, cycling when n exceeds it.
FirstN(names, n) == [k \in 1..n |-> names[((k - 1) % Len(names)) + 1]]

QueryProfiles ==
    {[EmptyProfile EXCEPT !.weak_areas = FirstN(AreaNames, w),
                          !.target_companies = FirstN(CompanyNames, c),
                          !.tech_stack = FirstN(TechNames, t),
                          !.primary_language = lr[1],
                          !.preferred_role = lr[2]] :
        w \in 0..MaxAreas, c \in 0..MaxCompanies, t \in 0..MaxTech,
        lr \in {<<"", "">>, <<"Python", "Backend">>}}

LinePool == {"", "  ", "graph tutorial", " dp basics \r"}

RECURSIVE JoinLines(_)
JoinLines(lines) ==
    IF lines = <<>> THEN ""
    ELSE IF Len(lines) = 1 THEN lines[1]
    ELSE lines[1] \o "\n" \o JoinLines(Tail(lines))

\* n numbered lines; with blanks, a whitespace-only line precedes each.
LongText(n, blanks) ==
    JoinLines([k \in 1..n |->
        (IF blanks THEN " \t\n" ELSE "") \o " q" \o ToString(k) \o " "])

ResponseTexts ==
    {JoinLines(ls) : ls \in SeqsUpTo(LinePool, MaxLines)}
        \cup {LongText(n, b) : n \in (MaxLongLines - 3)..MaxLongLines, b \in BOOLEAN}

GenOutcomes == {RaiseOutcome} \cup {TextOutcome(t) : t \in ResponseTexts}

\* The outcomes drawn when analyze_user_profile calls generate_search_queries.
FewGenOutcomes == {RaiseOutcome, TextOutcome("graph tutorial\n\n dp basics ")}

ResourceTitles ==
    {"DSA Tutorial", "Leetcode Practice Problems", "Google Python Practice"}

ResourceUrl(title) ==
    CASE title = "DSA Tutorial" -> "https://www.geeksforgeeks.org/dsa-tutorial/"
      [] title = "Leetcode Practice Problems"
            -> "https://www.geeksforgeeks.org/leetcode-practice-problems/"
      [] OTHER -> "https://www.geeksforgeeks.org/google-python-practice/"

\* Resource dicts; the last one is a record without "description".
ResourcePool ==
    {[title |-> t, description |-> "about " \o t, url |-> ResourceUrl(t)] :
        t \in ResourceTitles}
        \cup {[title |-> "DSA Tutorial", url |-> "https://www.geeksforgeeks.org/dsa/"]}

CatProfiles ==
    {EmptyProfile,
     [EmptyProfile EXCEPT !.tech_stack = <<"Python">>],
     [EmptyProfile EXCEPT !.weak_areas = <<"DSA">>,
                          !.target_companies = <<"Google">>,
                          !.tech_stack = <<"Python">>],
     [EmptyProfile EXCEPT !.weak_areas = <<"dsa">>,
                          !.target_companies = <<"google">>,
                          !.tech_stack = <<"python">>],
     [EmptyProfile EXCEPT !.weak_areas = <<"python">>,
                          !.target_companies = <<"Google">>],
     [EmptyProfile EXCEPT !.tech_stack = <<"DSA">>],
     [EmptyProfile EXCEPT !.weak_areas = <<"">>]}

JsonValues ==
    {JsonString(c) : c \in CategoryNames \cup {"other"}} \cup {JsonNumber, JsonArray}

TitlesOf(rs) == {rs[i].title : i \in 1..Len(rs)}

\* The JSON objects keyed by titles of the resources (keys that are no
\* resource's title are never looked up).
Mappings(rs) == UNION {[D -> JsonValues] : D \in SUBSET TitlesOf(rs)}

NoMapping == [t \in {} |-> JsonNumber]

CatOutcomes(rs) ==
    {CatOutcome(k, NoMapping) : k \in {"raise", "unparseable", "nonobject"}}
        \cup {CatOutcome("object", m) : m \in Mappings(rs)}

\* An anchor as its attribute dict.
Anchor(href) == [href |-> href]

\* An anchor without href attribute.
BareAnchor == [a \in {} |-> ""]

\* hrefs as search pages carry them: absolute, protocol-relative and
\* root-relative, with and without fragment, a fragment alone, article and
\* listing pages, other sites.
Hrefs ==
    {"https://www.geeksforgeeks.org/dp/",
     " //www.geeksforgeeks.org/dp/#top ",
     "/graph/#intro",
     "/tag/dp/",
     "https://www.geeksforgeeks.org/DP/",
     "https://www.geeksforgeeks.org/?s=dp",
     "http://www.geeksforgeeks.org/tag/dp/",
     "https://evil.example/geeksforgeeks.org/",
     "https://leetcode.com/problems/",
     "#top"}

AnchorPool == {Anchor(h) : h \in Hrefs} \cup {BareAnchor}

\* The anchors of the fetched search pages: none, rejected ones only, one
\* article, one article named twice and a second one, four articles.
Pages ==
    {<<>>,
     <<Anchor("/tag/dp/"), Anchor("https://leetcode.com/problems/"), BareAnchor>>,
     <<Anchor("https://www.geeksforgeeks.org/dp/")>>,
     <<Anchor(" //www.geeksforgeeks.org/dp/#top "),
       Anchor("https://www.geeksforgeeks.org/dp/"),
       Anchor("/graph/#intro")>>,
     <<Anchor("https://www.geeksforgeeks.org/dp/"),
       Anchor("/graph/#intro"),
       Anchor("https://www.geeksforgeeks.org/DP/"),
       Anchor("/tree/")>>}

SearchOutcomes ==
    {SearchOutcome("raise", <<>>)} \cup {SearchOutcome("page", links) : links \in Pages}

NoObject == [k \in {} |-> ""]

\* JSON objects the generative call may answer with: empty, with an empty
\* title, as asked for, and with values for the keys the code stamps.
MetaObjects ==
    {NoObject,
     [title |-> "", description |-> "An article"],
     [title |-> "Intro to DP", description |-> "An article",
      resource_type |-> "blog", difficulty |-> "beginner"],
     [title |-> "Intro to DP", url |-> "https://other.example/",
      query |-> "other", created_at |-> "yesterday", source |-> "llm"]}

MetaOutcomes ==
    {MetaOutcome("raise", NoObject), MetaOutcome("text", NoObject),
     MetaOutcome("nonobject", NoObject)}
        \cup {MetaOutcome("object", o) : o \in MetaObjects}

ScrapeQueries == {"graph tutorial", "C++ & dp #1"}

\* The answer lists of the pipeline runs: none, one weak area, and an
\* answer that holds a JSON array for weak_areas.
PipelineAnswers ==
    {<<>>,
     <<[question_id |-> "onboarding_weak_areas", answer |-> "DSA"]>>,
     <<[question_id |-> "onboarding_name", answer |-> "Asha"],
       [question_id |-> "onboarding_weak_areas", answer_list |-> <<"DSA">>]>>}

\* What the search does in a pipeline run: it raises, or the page holds
\* rejected anchors only, one article, one article twice and a second one,
\* or four articles.
PipelineSearchOutcomes ==
    {SearchOutcome("raise", <<>>),
     SearchOutcome("page", <<Anchor("/tag/dp/")>>),
     SearchOutcome("page", <<Anchor("https://www.geeksforgeeks.org/dp/")>>),
     SearchOutcome("page", <<Anchor(" //www.geeksforgeeks.org/dp/#top "),
                             Anchor("https://www.geeksforgeeks.org/dp/"),
                             Anchor("/graph/#intro")>>),
     SearchOutcome("page", <<Anchor("https://www.geeksforgeeks.org/dp/"),
                             Anchor("/graph/#intro"),
                             Anchor("https://www.geeksforgeeks.org/DP/"),
                             Anchor("/tree/")>>)}

PipelineMetaOutcomes ==
    {MetaOutcome("raise", NoObject), MetaOutcome("text", NoObject),
     MetaOutcome("nonobject", NoObject), MetaOutcome("object", NoObject),
     MetaOutcome("object", [title |-> "Intro to DP", description |-> "An article"])}

\* What the generative call does for the URLs of one query: any of the
\* above for up to two URLs; for three it raises or answers the titled object.
PipelineMetaOutcomesFor(tier) ==
    IF Len(tier) <= 2
    THEN PipelineMetaOutcomes
    ELSE {MetaOutcome("raise", NoObject),
          MetaOutcome("object", [title |-> "Intro to DP", description |-> "An article"])}

PipelineCatOutcomes ==
    {CatOutcome(k, NoMapping) : k \in {"raise", "unparseable", "object"}}

UserIds == {"u1", "u2"}

DocIds == {"d1", "d2"}

WriteOutcomes ==
    {Added(id) : id \in DocIds} \cup {WriteRaised(w) : w \in BOOLEAN}

\* The concurrent calls of the pipeline.
Runs == {"r1", "r2"}

\* Their answer lists: one weak area for the first, a name for the second.
RunAnswers ==
    [r1 |-> <<[question_id |-> "onboarding_weak_areas", answer |-> "DSA"]>>,
     r2 |-> <<[question_id |-> "onboarding_name", answer |-> "Asha"]>>]

\* What the generative call of generate_search_queries does in a concurrent
\* call: it raises, or it answers one query.
RunGenOutcomes == {RaiseOutcome, TextOutcome(" graph tutorial \n")}

\* What the search does in a concurrent call: it raises, or the page holds
\* one article twice and a second one.
RunSearchOutcomes ==
    {SearchOutcome("raise", <<>>),
     SearchOutcome("page", <<Anchor(" //www.geeksforgeeks.org/dp/#top "),
                             Anchor("https://www.geeksforgeeks.org/dp/"),
                             Anchor("/graph/#intro")>>)}

RunMetaOutcomes ==
    {MetaOutcome("raise", NoObject),
     MetaOutcome("object", [title |-> "Intro to DP", description |-> "An article"])}

RunCatOutcomes == {CatOutcome("raise", NoMapping)}

\* The state of the handlers that are not running.
DiscoverIdle ==
    /\ query = ""
    /\ max_results = 0
    /\ candidate_links = <<>>
    /\ linkIdx = 1
    /\ urls = <<>>
    /\ seen = {}

NoSearch == SearchOutcome("none", <<>>)

ScrapeIdle ==
    /\ searchOutcome = NoSearch
    /\ gfg_urls = <<>>
    /\ urlIdx = 1
    /\ metaLog = <<>>
    /\ scraped = <<>>

NoResult == [kind |-> "none"]

PipelineIdle ==
    /\ qIdx = 1
    /\ all_resources = <<>>
    /\ result = NoResult

NoWrite == [kind |-> "none"]

PersistIdle ==
    /\ user_id = ""
    /\ dbOutcome = NoWrite
    /\ home = <<>>
    /\ returned = NoResult

\* No event loop task holds the loop.
NoRun == ""

RunsIdle ==
    /\ gemini_agent = None
    /\ loop = NoRun
    /\ run = <<>>

\* No endpoint has responded.
NoResponse == [endpoint |-> "", request |-> <<>>, status |-> 0, body |-> <<>>]

ApiIdle ==
    /\ users = <<>>
    /\ submissions = <<>>
    /\ response = NoResponse
    /\ calls = 0

\* What the collaborators answered to one call of the pipeline: the
\* generative call of generate_search_queries, for each query the fetch of
\* the search page, the generative calls for its URLs and the clock when
\* the fetch returned, the generative call of categorize_resources, and the
\* clock at the return.
NothingHeard ==
    [gen |-> RaiseOutcome, queries |-> <<>>,
     cat |-> CatOutcome("none", NoMapping), at |-> 0]

\* The locals of a call of process_user_and_generate_resources that has not
\* started, with what it heard, the lists search_and_scrape returned to it
\* and the steps it took.
NewRun(answers) ==
    [pc                    |-> "start",
     user_answers          |-> answers,
     profile               |-> EmptyProfile,
     search_queries        |-> <<>>,
     qIdx                  |-> 1,
     gfg_urls              |-> <<>>,
     urlIdx                |-> 1,
     resources             |-> <<>>,
     all_resources         |-> <<>>,
     categorized_resources |-> NoCategories,
     result                |-> NoResult,
     heard                 |-> NothingHeard,
     returns               |-> <<>>,
     events                |-> <<>>]

----------------------------------------------------------------------------
(* SpecProfile: analyze_user_profile on every answer list of the pool.     *)

InitProfile ==
    /\ pc = "analyze_loop"
    /\ user_answers \in SeqsUpTo(AnswerPool, MaxAnswers)
    /\ idx = 1
    /\ profile = EmptyProfile
    /\ genOutcome = RaiseOutcome
    /\ search_queries = <<>>
    /\ resources = <<>>
    /\ catOutcome = CatOutcome("none", NoMapping)
    /\ categories = NoCategories
    /\ DiscoverIdle
    /\ ScrapeIdle
    /\ PipelineIdle
    /\ PersistIdle
    /\ now = 0
    /\ RunsIdle
    /\ ApiIdle

\* for answer in user_answers: one iteration
AnalyzeLoop ==
    /\ pc = "analyze_loop"
    /\ idx <= Len(user_answers)
    /\ ~SplitRaises(user_answers[idx])
    /\ profile' = ApplyAnswer(profile, user_answers[idx])
    /\ idx' = idx + 1
    /\ UNCHANGED <<pc, user_answers, genOutcome, search_queries,
                   resources, catOutcome, categories>>
    /\ UNCHANGED <<discoverVars, scrapeVars, pipelineVars, persistVars, now>>
    /\ UNCHANGED runVars
    /\ UNCHANGED apiVars

\* search_queries = await self.generate_search_queries(profile); return
AnalyzeReturn ==
    /\ pc = "analyze_loop"
    /\ idx > Len(user_answers)
    /\ \E outcome \in FewGenOutcomes :
          /\ genOutcome' = outcome
          /\ search_queries' = GenerateSearchQueries(profile, outcome)
    /\ pc' = "analyzed"
    /\ UNCHANGED <<user_answers, idx, profile, resources, catOutcome, categories>>
    /\ UNCHANGED <<discoverVars, scrapeVars, pipelineVars, persistVars, now>>
    /\ UNCHANGED runVars
    /\ UNCHANGED apiVars

NextProfile == AnalyzeLoop \/ AnalyzeReturn

SpecProfile == InitProfile /\ [][NextProfile]_vars

----------------------------------------------------------------------------
(* SpecQueries: generate_search_queries on every profile and outcome.      *)

InitQueries ==
    /\ pc = "generate_queries"
    /\ user_answers = <<>>
    /\ idx = 1
    /\ profile \in QueryProfiles
    /\ genOutcome = RaiseOutcome
    /\ search_queries = <<>>
    /\ resources = <<>>
    /\ catOutcome = CatOutcome("none", NoMapping)
    /\ categories = NoCategories
    /\ DiscoverIdle
    /\ ScrapeIdle
    /\ PipelineIdle
    /\ PersistIdle
    /\ now = 0
    /\ RunsIdle
    /\ ApiIdle

GenerateQueriesCall ==
    /\ pc = "generate_queries"
    /\ \E outcome \in GenOutcomes :
          /\ genOutcome' = outcome
          /\ search_queries' = GenerateSearchQueries(profile, outcome)
    /\ pc' = "queries_done"
    /\ UNCHANGED <<user_answers, idx, profile, resources, catOutcome, categories>>
    /\ UNCHANGED <<discoverVars, scrapeVars, pipelineVars, persistVars, now>>
    /\ UNCHANGED runVars
    /\ UNCHANGED apiVars

NextQueries == GenerateQueriesCall

SpecQueries == InitQueries /\ [][NextQueries]_vars

----------------------------------------------------------------------------
(* SpecCategorize: categorize_resources on every resource list, profile    *)
(* and outcome of the generative call.                                     *)

InitCategorize ==
    /\ pc = "categorize"
    /\ user_answers = <<>>
    /\ idx = 1
    /\ profile \in CatProfiles
    /\ genOutcome = RaiseOutcome
    /\ search_queries = <<>>
    /\ resources \in SeqsUpTo(ResourcePool, MaxResources)
    /\ catOutcome = CatOutcome("none", NoMapping)
    /\ categories = NoCategories
    /\ DiscoverIdle
    /\ ScrapeIdle
    /\ PipelineIdle
    /\ PersistIdle
    /\ now = 0
    /\ RunsIdle
    /\ ApiIdle

CategorizeCall ==
    /\ pc = "categorize"
    /\ \E outcome \in CatOutcomes(resources) :
          /\ catOutcome' = outcome
          /\ categories' = CategorizeResources(resources, profile, outcome)
    /\ pc' = "categorized"
    /\ UNCHANGED <<user_answers, idx, profile, genOutcome, search_queries, resources>>
    /\ UNCHANGED <<discoverVars, scrapeVars, pipelineVars, persistVars, now>>
    /\ UNCHANGED runVars
    /\ UNCHANGED apiVars

NextCategorize == CategorizeCall

SpecCategorize == InitCategorize /\ [][NextCategorize]_vars

----------------------------------------------------------------------------
(* SpecDiscover: the loop of search_geeksforgeeks over the anchors of a    *)
(* fetched page, one iteration per step.                                   *)

InitDiscover ==
    /\ pc = "discover_loop"
    /\ user_answers = <<>>
    /\ idx = 1
    /\ profile = EmptyProfile
    /\ genOutcome = RaiseOutcome
    /\ search_queries = <<>>
    /\ resources = <<>>
    /\ catOutcome = CatOutcome("none", NoMapping)
    /\ categories = NoCategories
    /\ query = "dp"
    /\ max_results \in 0..MaxResultsArg
    /\ candidate_links \in SeqsUpTo(AnchorPool, MaxLinks)
    /\ linkIdx = 1
    /\ urls = <<>>
    /\ seen = {}
    /\ ScrapeIdle
    /\ PipelineIdle
    /\ PersistIdle
    /\ now = 0
    /\ RunsIdle
    /\ ApiIdle

\* for a in candidate_links: one iteration; a break returns urls
DiscoverLoop ==
    /\ pc = "discover_loop"
    /\ linkIdx <= Len(candidate_links)
    /\ LET step == DiscoverStep(urls, seen, candidate_links[linkIdx], max_results)
       IN  /\ urls' = step.urls
           /\ seen' = step.seen
           /\ pc' = IF step.break THEN "discovered" ELSE "discover_loop"
    /\ linkIdx' = linkIdx + 1
    /\ UNCHANGED <<query, max_results, candidate_links>>
    /\ UNCHANGED <<profileVars, queryVars, categorizeVars, scrapeVars,
                   pipelineVars, persistVars, now>>
    /\ UNCHANGED runVars
    /\ UNCHANGED apiVars

\* return urls, the anchors being exhausted
DiscoverReturn ==
    /\ pc = "discover_loop"
    /\ linkIdx > Len(candidate_links)
    /\ pc' = "discovered"
    /\ UNCHANGED <<profileVars, queryVars, categorizeVars, discoverVars,
                   scrapeVars, pipelineVars, persistVars, now>>
    /\ UNCHANGED runVars
    /\ UNCHANGED apiVars

NextDiscover == DiscoverLoop \/ DiscoverReturn

SpecDiscover == InitDiscover /\ [][NextDiscover]_vars

----------------------------------------------------------------------------
(* SpecScrape: search_and_scrape, one step for the search and one for each *)
(* URL.                                                                    *)

InitScrape ==
    /\ pc = "scrape_search"
    /\ user_answers = <<>>
    /\ idx = 1
    /\ profile = EmptyProfile
    /\ genOutcome = RaiseOutcome
    /\ search_queries = <<>>
    /\ resources = <<>>
    /\ catOutcome = CatOutcome("none", NoMapping)
    /\ categories = NoCategories
    /\ query \in ScrapeQueries
    /\ max_results \in 0..MaxResultsArg
    /\ candidate_links = <<>>
    /\ linkIdx = 1
    /\ urls = <<>>
    /\ seen = {}
    /\ ScrapeIdle
    /\ PipelineIdle
    /\ PersistIdle
    /\ now = 0
    /\ RunsIdle
    /\ ApiIdle

\* Lines 193-200: resources = []; the search, with its except.
ScrapeSearch ==
    /\ pc = "scrape_search"
    /\ \E outcome \in SearchOutcomes :
          /\ searchOutcome' = outcome
          /\ gfg_urls' = TierOneUrls(outcome, max_results)
    /\ urlIdx' = 1
    /\ scraped' = <<>>
    /\ pc' = "scrape_loop"
    /\ UNCHANGED <<metaLog, now>>
    /\ UNCHANGED <<profileVars, queryVars, categorizeVars, discoverVars,
                   pipelineVars, persistVars>>
    /\ UNCHANGED runVars
    /\ UNCHANGED apiVars

\* for url in gfg_urls[:max_results]: one iteration
ScrapeLoop ==
    /\ pc = "scrape_loop"
    /\ urlIdx <= Len(Take(gfg_urls, max_results))
    /\ \E outcome \in MetaOutcomes :
          LET url == gfg_urls[urlIdx]
          IN  /\ metaLog' = Append(metaLog,
                     [url      |-> url,
                      query    |-> query,
                      outcome  |-> outcome,
                      at       |-> now,
                      returned |-> CreateResourceMetadata(url, query, outcome, now)])
              /\ scraped' = Append(scraped, ResourceFor(url, query, outcome, now))
    /\ urlIdx' = urlIdx + 1
    /\ now' = now + 1
    /\ UNCHANGED <<pc, searchOutcome, gfg_urls>>
    /\ UNCHANGED <<profileVars, queryVars, categorizeVars, discoverVars,
                   pipelineVars, persistVars>>
    /\ UNCHANGED runVars
    /\ UNCHANGED apiVars

\* Lines 211-226: the final fallback and the return.
ScrapeReturn ==
    /\ pc = "scrape_loop"
    /\ urlIdx > Len(Take(gfg_urls, max_results))
    /\ scraped' = WithSearchFallback(scraped, query, now)
    /\ now' = IF scraped = <<>> THEN now + 1 ELSE now
    /\ pc' = "scraped"
    /\ UNCHANGED <<searchOutcome, gfg_urls, urlIdx, metaLog>>
    /\ UNCHANGED <<profileVars, queryVars, categorizeVars, discoverVars,
                   pipelineVars, persistVars>>
    /\ UNCHANGED runVars
    /\ UNCHANGED apiVars

NextScrape == ScrapeSearch \/ ScrapeLoop \/ ScrapeReturn

SpecScrape == InitScrape /\ [][NextScrape]_vars

----------------------------------------------------------------------------
(* Spec: generate_personalized_resources. The pipeline runs the loop of    *)
(* analyze_user_profile, one search_and_scrape call per query, the         *)
(* categorization and the return; the write to 'home' follows.             *)

Init ==
    /\ pc = "analyze_loop"
    /\ user_answers \in PipelineAnswers
    /\ idx = 1
    /\ profile = EmptyProfile
    /\ genOutcome = RaiseOutcome
    /\ search_queries = <<>>
    /\ resources = <<>>
    /\ catOutcome = CatOutcome("none", NoMapping)
    /\ categories = NoCategories
    /\ DiscoverIdle
    /\ ScrapeIdle
    /\ PipelineIdle
    /\ user_id \in UserIds
    /\ dbOutcome = NoWrite
    /\ home = <<>>
    /\ returned = NoResult
    /\ now = 0
    /\ RunsIdle
    /\ ApiIdle

\* answer_text.split(',') on an answer that is not a string: the
\* AttributeError leaves analyze_user_profile and the pipeline.
AnalyzeRaise ==
    /\ pc = "analyze_loop"
    /\ idx <= Len(user_answers)
    /\ SplitRaises(user_answers[idx])
    /\ result' = Raised("AttributeError")
    /\ pc' = "raised"
    /\ UNCHANGED <<qIdx, all_resources>>
    /\ UNCHANGED <<profileVars, queryVars, categorizeVars, discoverVars,
                   scrapeVars, persistVars, now>>
    /\ UNCHANGED runVars
    /\ UNCHANGED apiVars

\* Lines 408-414: one iteration of the loop over search_queries, the
\* search_and_scrape call as a whole.
PipelineQuery ==
    /\ pc = "analyzed"
    /\ qIdx <= Len(search_queries)
    /\ \E outcome \in PipelineSearchOutcomes :
          LET q     == search_queries[qIdx]
              found == TierOneUrls(outcome, PipelineMaxResults)
              tier  == Take(found, PipelineMaxResults)
          IN  \E metaOutcomes \in [1..Len(tier) -> PipelineMetaOutcomesFor(tier)] :
                 LET got == SearchAndScrape(q, PipelineMaxResults, outcome,
                                            metaOutcomes, now)
                 IN  /\ query' = q
                     /\ max_results' = PipelineMaxResults
                     /\ searchOutcome' = outcome
                     /\ gfg_urls' = found
                     /\ metaLog' = [k \in 1..Len(tier) |->
                            [url      |-> tier[k],
                             query    |-> q,
                             outcome  |-> metaOutcomes[k],
                             at       |-> now + k - 1,
                             returned |-> CreateResourceMetadata(
                                              tier[k], q, metaOutcomes[k], now + k - 1)]]
                     /\ scraped' = got
                     /\ all_resources' = all_resources \o got
                     /\ now' = now + (IF tier = <<>> THEN 1 ELSE Len(tier))
    /\ qIdx' = qIdx + 1
    /\ UNCHANGED <<pc, result, urlIdx, candidate_links, linkIdx, urls, seen>>
    /\ UNCHANGED <<profileVars, queryVars, categorizeVars, persistVars>>
    /\ UNCHANGED runVars
    /\ UNCHANGED apiVars

\* Line 417: the categorization of the accumulated resources.
PipelineCategorize ==
    /\ pc = "analyzed"
    /\ qIdx > Len(search_queries)
    /\ resources' = all_resources
    /\ \E outcome \in PipelineCatOutcomes :
          /\ catOutcome' = outcome
          /\ categories' = CategorizeResources(all_resources, profile, outcome)
    /\ pc' = "categorized"
    /\ UNCHANGED <<profileVars, queryVars, discoverVars, scrapeVars,
                   pipelineVars, persistVars, now>>
    /\ UNCHANGED runVars
    /\ UNCHANGED apiVars

\* Lines 419-425: the result.
PipelineReturn ==
    /\ pc = "categorized"
    /\ result' = Returned(PipelineResult(profile, search_queries, all_resources,
                                         categories, now))
    /\ now' = now + 1
    /\ pc' = "pipeline_returned"
    /\ UNCHANGED <<qIdx, all_resources>>
    /\ UNCHANGED <<profileVars, queryVars, categorizeVars, discoverVars,
                   scrapeVars, persistVars>>
    /\ UNCHANGED runVars
    /\ UNCHANGED apiVars

\* Lines 541-559: the document, the write, the identifier and the return; a
\* raising write is re-raised by the except of line 561.
PersistAdd ==
    /\ pc = "pipeline_returned"
    /\ \E outcome \in WriteOutcomes :
          /\ dbOutcome' = outcome
          /\ home' = IF outcome.written
                     THEN Append(home, [id   |-> IF outcome.kind = "added"
                                                 THEN outcome.id ELSE "d0",
                                        data |-> HomeDocData(user_id, result.value)])
                     ELSE home
          /\ returned' = IF outcome.kind = "added"
                         THEN Returned(WithHomeDocId(result.value, outcome.id))
                         ELSE Raised("write failed")
    /\ pc' = "done"
    /\ UNCHANGED <<user_id, now>>
    /\ UNCHANGED <<profileVars, queryVars, categorizeVars, discoverVars,
                   scrapeVars, pipelineVars>>
    /\ UNCHANGED runVars
    /\ UNCHANGED apiVars

\* Lines 561-563: the pipeline's exception is re-raised.
PersistPropagate ==
    /\ pc = "raised"
    /\ returned' = Raised(result.value)
    /\ pc' = "done"
    /\ UNCHANGED <<user_id, dbOutcome, home, now>>
    /\ UNCHANGED <<profileVars, queryVars, categorizeVars, discoverVars,
                   scrapeVars, pipelineVars>>
    /\ UNCHANGED runVars
    /\ UNCHANGED apiVars

Next ==
    \/ AnalyzeLoop
    \/ AnalyzeRaise
    \/ AnalyzeReturn
    \/ PipelineQuery
    \/ PipelineCategorize
    \/ PipelineReturn
    \/ PersistAdd
    \/ PersistPropagate

Spec == Init /\ [][Next]_vars

----------------------------------------------------------------------------
(* SpecRuns: two calls of process_user_and_generate_resources on the        *)
(* singleton agent, as tasks of one event loop. A call keeps the loop from  *)
(* one suspension to the next; it suspends in the fetch of the search page  *)
(* (lines 279-280) and in asyncio.sleep (line 414). generate_content is a   *)
(* blocking call, so the calls of lines 161, 358 and 476 do not suspend.    *)

InitRuns ==
    /\ pc = "runs"
    /\ user_answers = <<>>
    /\ idx = 1
    /\ profile = EmptyProfile
    /\ genOutcome = RaiseOutcome
    /\ search_queries = <<>>
    /\ resources = <<>>
    /\ catOutcome = CatOutcome("none", NoMapping)
    /\ categories = NoCategories
    /\ DiscoverIdle
    /\ ScrapeIdle
    /\ PipelineIdle
    /\ PersistIdle
    /\ gemini_agent = None
    /\ loop = NoRun
    /\ run = [r \in Runs |-> NewRun(RunAnswers[r])]
    /\ now = 0
    /\ ApiIdle

\* Lines 538, 401-406: the agent, analyze_user_profile with its call of
\* generate_search_queries, all_resources = [].
RunStart ==
    /\ loop = NoRun
    /\ \E r \in Runs :
          /\ run[r].pc = "start"
          /\ \E outcome \in RunGenOutcomes :
                LET p == ExtractProfile(run[r].user_answers)
                IN  run' = [run EXCEPT ![r] =
                               [@ EXCEPT !.profile = p,
                                         !.search_queries =
                                             GenerateSearchQueries(p, outcome),
                                         !.all_resources = <<>>,
                                         !.pc = "loop",
                                         !.heard = [@ EXCEPT !.gen = outcome],
                                         !.events = Append(@, Event("analyzed", 0))]]
          /\ loop' = r
    /\ gemini_agent' = GetGeminiAgent(gemini_agent)
    /\ UNCHANGED <<pc, profileVars, queryVars, categorizeVars, discoverVars,
                   scrapeVars, pipelineVars, persistVars, now>>
    /\ UNCHANGED apiVars

\* Lines 408-410, 193-197, 262-280: the next query; search_and_scrape calls
\* search_geeksforgeeks, which suspends in the fetch.
RunSearch ==
    /\ loop # NoRun
    /\ run[loop].pc = "loop"
    /\ run[loop].qIdx <= Len(run[loop].search_queries)
    /\ run' = [run EXCEPT ![loop] =
                  [@ EXCEPT !.resources = <<>>,
                            !.pc = "searching",
                            !.events = Append(@, Event("search", run[loop].qIdx))]]
    /\ loop' = NoRun
    /\ UNCHANGED <<pc, profileVars, queryVars, categorizeVars, discoverVars,
                   scrapeVars, pipelineVars, persistVars, gemini_agent, now>>
    /\ UNCHANGED apiVars

\* Lines 280-320, 196-200: the fetch is over; the tier-1 URLs.
RunFound ==
    /\ loop = NoRun
    /\ \E r \in Runs :
          /\ run[r].pc = "searching"
          /\ \E outcome \in RunSearchOutcomes :
                run' = [run EXCEPT ![r] =
                           [@ EXCEPT !.gfg_urls = TierOneUrls(outcome, PipelineMaxResults),
                                     !.urlIdx = 1,
                                     !.pc = "building",
                                     !.heard = [@ EXCEPT !.queries = Append(@,
                                                   [search |-> outcome,
                                                    metas  |-> <<>>,
                                                    at     |-> now])],
                                     !.events = Append(@, Event("found", run[r].qIdx))]]
          /\ loop' = r
    /\ UNCHANGED <<pc, profileVars, queryVars, categorizeVars, discoverVars,
                   scrapeVars, pipelineVars, persistVars, gemini_agent, now>>
    /\ UNCHANGED apiVars

\* Lines 203-208: one iteration of the loop over gfg_urls[:max_results].
RunMetadata ==
    /\ loop # NoRun
    /\ run[loop].pc = "building"
    /\ run[loop].urlIdx <= Len(Take(run[loop].gfg_urls, PipelineMaxResults))
    /\ \E outcome \in RunMetaOutcomes :
          LET me == run[loop]
              q  == me.search_queries[me.qIdx]
          IN  run' = [run EXCEPT ![loop] =
                         [@ EXCEPT !.resources = Append(@,
                                       ResourceFor(me.gfg_urls[me.urlIdx], q, outcome, now)),
                                   !.urlIdx = @ + 1,
                                   !.heard = [@ EXCEPT !.queries[me.qIdx].metas =
                                                 Append(@, outcome)],
                                   !.events = Append(@, Event("metadata", me.qIdx))]]
    /\ now' = now + 1
    /\ UNCHANGED <<pc, profileVars, queryVars, categorizeVars, discoverVars,
                   scrapeVars, pipelineVars, persistVars, gemini_agent, loop>>
    /\ UNCHANGED apiVars

\* Lines 211-226, 411, 414: the fallback, the return of search_and_scrape,
\* the extension of the accumulator; the call suspends in asyncio.sleep.
RunExtend ==
    /\ loop # NoRun
    /\ run[loop].pc = "building"
    /\ run[loop].urlIdx > Len(Take(run[loop].gfg_urls, PipelineMaxResults))
    /\ LET me  == run[loop]
           got == WithSearchFallback(me.resources, me.search_queries[me.qIdx], now)
       IN  run' = Accumulate(
                      [run EXCEPT ![loop] =
                          [@ EXCEPT !.resources = got,
                                    !.returns = Append(@, got),
                                    !.pc = "sleeping",
                                    !.events = Append(@, Event("sleep", me.qIdx))]],
                      loop, got)
    /\ now' = IF run[loop].resources = <<>> THEN now + 1 ELSE now
    /\ loop' = NoRun
    /\ UNCHANGED <<pc, profileVars, queryVars, categorizeVars, discoverVars,
                   scrapeVars, pipelineVars, persistVars, gemini_agent>>
    /\ UNCHANGED apiVars

\* Line 414 is over: the for loop goes on.
RunWake ==
    /\ loop = NoRun
    /\ \E r \in Runs :
          /\ run[r].pc = "sleeping"
          /\ run' = [run EXCEPT ![r] =
                        [@ EXCEPT !.qIdx = @ + 1,
                                  !.pc = "loop",
                                  !.events = Append(@, Event("woke", run[r].qIdx))]]
          /\ loop' = r
    /\ UNCHANGED <<pc, profileVars, queryVars, categorizeVars, discoverVars,
                   scrapeVars, pipelineVars, persistVars, gemini_agent, now>>
    /\ UNCHANGED apiVars

\* Line 417: the categorization of the accumulated resources.
RunCategorize ==
    /\ loop # NoRun
    /\ run[loop].pc = "loop"
    /\ run[loop].qIdx > Len(run[loop].search_queries)
    /\ \E outcome \in RunCatOutcomes :
          LET me == run[loop]
          IN  run' = [run EXCEPT ![loop] =
                         [@ EXCEPT !.categorized_resources =
                                       CategorizeResources(me.all_resources,
                                                           me.profile, outcome),
                                   !.pc = "categorized",
                                   !.heard = [@ EXCEPT !.cat = outcome],
                                   !.events = Append(@,
                                       Event("categorize", me.qIdx))]]
    /\ UNCHANGED <<pc, profileVars, queryVars, categorizeVars, discoverVars,
                   scrapeVars, pipelineVars, persistVars, gemini_agent, loop, now>>
    /\ UNCHANGED apiVars

\* Lines 419-425: the result; the task is over.
RunReturn ==
    /\ loop # NoRun
    /\ run[loop].pc = "categorized"
    /\ LET me == run[loop]
       IN  run' = [run EXCEPT ![loop] =
                      [@ EXCEPT !.result = Returned(PipelineResult(
                                    me.profile, me.search_queries, me.all_resources,
                                    me.categorized_resources, now)),
                                !.pc = "done",
                                !.heard = [@ EXCEPT !.at = now],
                                !.events = Append(@, Event("return", me.qIdx))]]
    /\ now' = now + 1
    /\ loop' = NoRun
    /\ UNCHANGED <<pc, profileVars, queryVars, categorizeVars, discoverVars,
                   scrapeVars, pipelineVars, persistVars, gemini_agent>>
    /\ UNCHANGED apiVars

NextRuns ==
    \/ RunStart
    \/ RunSearch
    \/ RunFound
    \/ RunMetadata
    \/ RunExtend
    \/ RunWake
    \/ RunCategorize
    \/ RunReturn

SpecRuns == InitRuns /\ [][NextRuns]_vars

----------------------------------------------------------------------------
(* Vocabulary of the properties: split, trim and line structure stated by  *)
(* position, independently of the operators that compute them above.       *)

\* The k-th smallest element of a set of integers.
NthOf(S, k) == CHOOSE p \in S : Cardinality({q \in S : q < p}) = k - 1

Cuts(text, sep) == {i \in 1..Len(text) : CharAt(text, i) = sep}

NumPieces(text, sep) == Cardinality(Cuts(text, sep)) + 1

\* The text between the (k-1)-th and the k-th occurrence of sep.
PieceAt(text, sep, k) ==
    LET cuts == Cuts(text, sep)
        lo   == IF k = 1 THEN 0 ELSE NthOf(cuts, k - 1)
        hi   == IF k = Cardinality(cuts) + 1 THEN Len(text) + 1 ELSE NthOf(cuts, k)
    IN  SubSeq(text, lo + 1, hi - 1)

IsBlank(raw) == \A i \in 1..Len(raw) : CharAt(raw, i) \in Whitespace

\* seg is raw without its leading and trailing whitespace.
IsTrimOf(seg, raw) ==
    IF seg = ""
    THEN IsBlank(raw)
    ELSE /\ CharAt(seg, 1) \notin Whitespace
         /\ CharAt(seg, Len(seg)) \notin Whitespace
         /\ \E a \in 1..Len(raw) :
               /\ SubSeq(raw, a, a + Len(seg) - 1) = seg
               /\ \A i \in 1..Len(raw) :
                     (i < a \/ i >= a + Len(seg)) => CharAt(raw, i) \in Whitespace

\* segs is the comma-split of text, every segment trimmed, none dropped.
IsCommaSplit(segs, text) ==
    /\ Len(segs) = NumPieces(text, ",")
    /\ \A k \in 1..Len(segs) : IsTrimOf(segs[k], PieceAt(text, ",", k))

MarkerOrder ==
    <<"name", "status", "education", "graduation_year", "primary_language",
      "tech_stack", "familiar_topics", "weak_areas", "target_companies",
      "preferred_role", "target_timeline", "preferred_resources">>

\* The field of the first marker, in MarkerOrder, occurring in the answer's
\* question_id; "none" when no marker occurs.
MarkerField(answer) ==
    LET q    == Get(answer, "question_id", "")
        hits == {k \in 1..Len(MarkerOrder) : Contains(MarkerOrder[k], q)}
    IN  IF hits = {} THEN "none" ELSE MarkerOrder[Min(hits)]

\* The marker field of every answer, by position.
AnswerFields(answers) == [i \in 1..Len(answers) |-> MarkerField(answers[i])]

\* The position of the last answer whose marker field is f; 0 when none.
LastAnswerFor(fields, f) ==
    LET S == {i \in 1..Len(fields) : fields[i] = f}
    IN  IF S = {} THEN 0 ELSE Max(S)

----------------------------------------------------------------------------
(* C9, C10: analyze_user_profile (SpecProfile).                            *)

\* C9: for every answer list the profile has all twelve fields; once the
\* loop is over, a field no answer addresses holds its default ("" or the
\* empty list), a scalar field holds the text of the answer addressing it,
\* and a list field is the comma-split of that answer, each segment trimmed
\* and empty segments kept.
C9_ProfileFullyDefined ==
    /\ DOMAIN profile = ProfileFields
    /\ pc = "analyzed" =>
          LET fields == AnswerFields(user_answers)
          IN  \A f \in ProfileFields :
                 LET i    == LastAnswerFor(fields, f)
                     text == Get(user_answers[i], "answer", "")
                 IN  IF i = 0
                     THEN IF f \in ListFields
                          THEN profile[f] = <<>>
                          ELSE profile[f] = ""
                     ELSE IF f \in ListFields
                          THEN IsCommaSplit(profile[f], text)
                          ELSE profile[f] = text

\* A run that kept an empty segment of " a,, b ," and left name at its default.
C9_Witness ==
    /\ pc = "analyzed"
    /\ LastAnswerFor(AnswerFields(user_answers), "name") = 0
    /\ profile.name = ""
    /\ profile.weak_areas = <<"a", "", "b", "">>
    /\ profile.tech_stack = <<>>

\* C10: one loop iteration changes no field but the one of the first marker
\* (in MarkerOrder) occurring in the answer's question_id, which receives the
\* answer; an answer whose question_id holds no marker changes nothing.
C10_OneFieldPerAnswer ==
    [][(pc = "analyze_loop" /\ idx' = idx + 1) =>
          LET a    == user_answers[idx]
              f    == MarkerField(a)
              text == Get(a, "answer", "")
          IN  /\ \A g \in ProfileFields \ {f} : profile'[g] = profile[g]
              /\ f \in ScalarFields => profile'[f] = text
              /\ f \in ListFields => IsCommaSplit(profile'[f], text)]_vars

\* The question_id "tech_stack_name" holds two markers: name, the earlier one
\* in the chain, took the answer and tech_stack was left alone.
C10_Witness ==
    /\ pc = "analyze_loop"
    /\ idx = 2
    /\ Get(user_answers[1], "question_id", "") = "tech_stack_name"
    /\ profile.name = " a,, b ,"
    /\ profile.tech_stack = <<>>

----------------------------------------------------------------------------
(* C6, C7, C8: generate_search_queries (SpecQueries).                      *)

\* The k-th query of the fallback, by position: two per weak area, then one
\* per target company, then one per tech-stack entry.
ExpectedFallbackAt(p, k) ==
    LET W == Len(p.weak_areas)
        C == Len(p.target_companies)
    IN  IF k <= 2 * W
        THEN IF k % 2 = 1
             THEN p.weak_areas[(k + 1) \div 2] \o " tutorial " \o p.primary_language
             ELSE p.weak_areas[k \div 2] \o " interview questions"
        ELSE IF k <= 2 * W + C
        THEN p.target_companies[k - 2 * W] \o " " \o p.preferred_role
                 \o " interview preparation"
        ELSE p.tech_stack[k - 2 * W - C] \o " best practices tutorial"

ExpectedFallback(p) ==
    LET total == 2 * Len(p.weak_areas) + Len(p.target_companies) + Len(p.tech_stack)
    IN  [k \in 1..(IF total < 15 THEN total ELSE 15) |-> ExpectedFallbackAt(p, k)]

\* The lines of the text holding a non-whitespace character.
NonBlankLines(text) ==
    {k \in 1..NumPieces(text, "\n") : ~IsBlank(PieceAt(text, "\n", k))}

\* C6 (as claimed): a response without any non-empty line makes
\* generate_search_queries return the profile-derived fallback list.
C6_EmptyResponseFallsBack ==
    (pc = "queries_done" /\ genOutcome.kind = "text"
        /\ NonBlankLines(genOutcome.text) = {})
    => search_queries = ExpectedFallback(profile)

\* C7: when the generative call fails, the result is the first 15 elements
\* of the sequence the profile alone determines (weak areas, then companies,
\* then tech stack); the profile extracted from weak_areas = "DSA, System
\* Design" gives exactly the four queries of DSA and System Design.
C7_FallbackIsProfileDerived ==
    (pc = "queries_done" /\ genOutcome.kind = "raise") =>
        /\ search_queries = ExpectedFallback(profile)
        /\ profile = ExtractProfile(WeakAreasOnlyAnswers) =>
              search_queries =
                  <<"DSA tutorial ", "DSA interview questions",
                    "System Design tutorial ", "System Design interview questions">>

C7_Witness ==
    /\ pc = "queries_done"
    /\ genOutcome.kind = "raise"
    /\ profile = ExtractProfile(WeakAreasOnlyAnswers)
    /\ profile.weak_areas = <<"DSA", "System Design">>
    /\ Len(search_queries) = 4

\* C8: the result never has more than 15 queries; on the primary path it is
\* the first 15 non-blank lines of the response, in order and trimmed, so no
\* query is empty or begins or ends with whitespace.
C8_AtMostFifteenTrimmedLines ==
    pc = "queries_done" =>
        /\ Len(search_queries) <= 15
        /\ genOutcome.kind = "text" =>
              LET text == genOutcome.text
                  nb   == NonBlankLines(text)
              IN  /\ Len(search_queries)
                        = (IF Cardinality(nb) < 15 THEN Cardinality(nb) ELSE 15)
                  /\ \A j \in 1..Len(search_queries) :
                        /\ search_queries[j] # ""
                        /\ IsTrimOf(search_queries[j],
                                    PieceAt(text, "\n", NthOf(nb, j)))

\* A response of more than 15 non-blank lines with blank lines between them.
C8_Witness ==
    /\ pc = "queries_done"
    /\ genOutcome.kind = "text"
    /\ Cardinality(NonBlankLines(genOutcome.text)) > 15
    /\ NumPieces(genOutcome.text, "\n") > Cardinality(NonBlankLines(genOutcome.text))
    /\ Len(search_queries) = 15
    /\ search_queries[15] = "q15"

----------------------------------------------------------------------------
(* C1 .. C5: categorize_resources (SpecCategorize).                        *)

\* How often r occurs in the six lists of the report together.
Placements(r) ==
    Count(r, categories.weak_areas_improvement)
        + Count(r, categories.interview_preparation)
        + Count(r, categories.skill_development)
        + Count(r, categories.practice_problems)
        + Count(r, categories.technology_tutorials)
        + Count(r, categories.general_learning)

ReportSize ==
    Len(categories.weak_areas_improvement)
        + Len(categories.interview_preparation)
        + Len(categories.skill_development)
        + Len(categories.practice_problems)
        + Len(categories.technology_tutorials)
        + Len(categories.general_learning)

\* Every occurrence of r in the input is in the list of category c and r is
\* in no other list.
PlacedIn(r, c) ==
    /\ Count(r, categories[c]) = Count(r, resources)
    /\ Placements(r) = Count(r, resources)

\* C1: whatever the generative capability answers, the report is a
\* partition of the input: every resource is in the six lists as often as it
\* is in the input, and the list lengths add up to the number of resources.
C1_ReportIsPartition ==
    pc = "categorized" =>
        /\ \A i \in 1..Len(resources) :
              Placements(resources[i]) = Count(resources[i], resources)
        /\ ReportSize = Len(resources)

\* Three resources and a JSON object that maps one title to a category other
\* than general_learning and another to a list: every resource is in
\* general_learning once and nowhere else.
C1_Witness ==
    /\ pc = "categorized"
    /\ catOutcome.kind = "object"
    /\ Len(resources) = 3
    /\ \E t \in DOMAIN catOutcome.mapping : ~Hashable(catOutcome.mapping[t])
    /\ \E t \in DOMAIN catOutcome.mapping :
          /\ IsCategoryKey(catOutcome.mapping[t])
          /\ catOutcome.mapping[t].text # "general_learning"
    /\ categories.general_learning = resources
    /\ ReportSize = 3

\* The title tests of the keyword rules with both sides lower-cased.
WeakTermInTitle(title, p) ==
    \E i \in 1..Len(p.weak_areas) : Contains(Lower(p.weak_areas[i]), Lower(title))

CompanyTermInTitle(title, p) ==
    \E i \in 1..Len(p.target_companies) :
        Contains(Lower(p.target_companies[i]), Lower(title))

KeywordInTitle(title) ==
    Contains("practice", Lower(title)) \/ Contains("problem", Lower(title))

TechTermInTitle(title, p) ==
    \E i \in 1..Len(p.tech_stack) : Contains(Lower(p.tech_stack[i]), Lower(title))

\* C2 (as claimed): in the keyword fallback every term test ignores letter
\* case: a title containing a weak-area term in any case goes to
\* weak_areas_improvement, and likewise, at their rank, a target-company term
\* to interview_preparation and a tech-stack term to technology_tutorials.
C2_TitleTestIgnoresCase ==
    (pc = "categorized" /\ catOutcome.kind = "unparseable") =>
        \A i \in 1..Len(resources) :
            LET r == resources[i]
                t == r.title
            IN  /\ WeakTermInTitle(t, profile) => PlacedIn(r, "weak_areas_improvement")
                /\ (~WeakTermInTitle(t, profile) /\ CompanyTermInTitle(t, profile))
                      => PlacedIn(r, "interview_preparation")
                /\ (~WeakTermInTitle(t, profile) /\ ~CompanyTermInTitle(t, profile)
                      /\ ~KeywordInTitle(t) /\ TechTermInTitle(t, profile))
                      => PlacedIn(r, "technology_tutorials")

\* C3 (as claimed): the keyword rules categorize the resources both when the
\* generative call raises and when its response cannot be parsed: every list
\* of the report holds the resources the rules send to its category.
C3_KeywordFallbackOnAnyFailure ==
    (pc = "categorized" /\ catOutcome.kind \in {"raise", "unparseable"}) =>
        \A c \in CategoryNames :
            categories[c]
                = SelectSeq(resources, LAMBDA r : KeywordCategory(r.title, profile) = c)

\* The rule tests as the fallback evaluates them, on the lower-cased title.
WeakRuleMatches(title, p) ==
    \E i \in 1..Len(p.weak_areas) : Contains(p.weak_areas[i], Lower(title))

\* Whether the rule of rank k matches the title; the last rule always does.
RuleMatches(k, title, p) ==
    CASE k = 1 -> WeakRuleMatches(title, p)
      [] k = 2 -> CompanyTermInTitle(title, p)
      [] k = 3 -> KeywordInTitle(title)
      [] k = 4 -> TechTermInTitle(title, p)
      [] OTHER -> TRUE

RuleCategories ==
    <<"weak_areas_improvement", "interview_preparation", "practice_problems",
      "technology_tutorials", "general_learning">>

\* The category of the first rule, by rank, that matches the resource's title.
FirstMatchingRule(r) ==
    RuleCategories[Min({k \in 1..Len(RuleCategories) : RuleMatches(k, r.title, profile)})]

\* The profile of the scenario: no weak areas, no companies, tech_stack Python.
PythonOnlyProfile == [EmptyProfile EXCEPT !.tech_stack = <<"Python">>]

\* C4 (as claimed): in the keyword fallback the category of a resource is that of the
\* first matching rule in the order weak area, company, practice/problem
\* keyword, tech stack, general: a function of title and profile alone. Under
\* the Python-only profile "Leetcode Practice Problems" is in
\* practice_problems.
C4_FirstMatchingRuleDecides ==
    (pc = "categorized" /\ catOutcome.kind = "unparseable") =>
        /\ \A i \in 1..Len(resources) :
              PlacedIn(resources[i], FirstMatchingRule(resources[i]))
        /\ profile = PythonOnlyProfile =>
              \A i \in 1..Len(resources) :
                  resources[i].title = "Leetcode Practice Problems"
                      => PlacedIn(resources[i], "practice_problems")

\* C5 (as claimed): when the response is a JSON object, a resource whose
\* title it maps to one of the six names is in that category, and a resource
\* whose title is absent or mapped to anything else is in general_learning.
C5_MappingIsApplied ==
    (pc = "categorized" /\ catOutcome.kind = "object") =>
        \A i \in 1..Len(resources) :
            LET r == resources[i]
                m == catOutcome.mapping
            IN  IF r.title \in DOMAIN m /\ IsCategoryKey(m[r.title])
                THEN PlacedIn(r, m[r.title].text)
                ELSE PlacedIn(r, "general_learning")

----------------------------------------------------------------------------
(* Vocabulary of the URL properties: the parts of a URL by position.       *)

EndsWith(s, suffix) ==
    Len(s) >= Len(suffix) /\ SubSeq(s, Len(s) - Len(suffix) + 1, Len(s)) = suffix

\* The positions of s at which sub starts.
Occurrences(sub, s) ==
    {i \in 1..(Len(s) - Len(sub) + 1) : SubSeq(s, i, i + Len(sub) - 1) = sub}

\* The part of s before the first character of stops, all of s if none is in it.
UpToAny(s, stops) ==
    LET at == {i \in 1..Len(s) : CharAt(s, i) \in stops}
    IN  IF at = {} THEN s ELSE SubSeq(s, 1, Min(at) - 1)

\* The part of s from the first occurrence of the character c on, c left out.
AfterFirst(s, c) ==
    LET at == {i \in 1..Len(s) : CharAt(s, i) = c}
    IN  IF at = {} THEN "" ELSE SubSeq(s, Min(at) + 1, Len(s))

\* The part of s after the last occurrence of the character c, all of s
\* if c is not in it.
AfterLast(s, c) ==
    LET at == {i \in 1..Len(s) : CharAt(s, i) = c}
    IN  IF at = {} THEN s ELSE SubSeq(s, Max(at) + 1, Len(s))

HasScheme(url) == Occurrences("://", url) # {}

\* What follows the scheme: authority, path, query string and fragment.
AfterScheme(url) ==
    IF HasScheme(url)
    THEN SubSeq(url, Min(Occurrences("://", url)) + 3, Len(url))
    ELSE url

\* The host of an absolute URL, lower-cased, without user info and port;
\* the empty string for a URL without scheme.
HostOf(url) ==
    IF ~HasScheme(url)
    THEN ""
    ELSE LET authority == UpToAny(AfterScheme(url), {"/", "?", "#"})
         IN  Lower(UpToAny(AfterLast(authority, "@"), {":"}))

\* The path of a URL.
PathOf(url) ==
    LET rest == AfterScheme(url)
        tail == IF HasScheme(url)
                THEN SubSeq(rest, Len(UpToAny(rest, {"/", "?", "#"})) + 1, Len(rest))
                ELSE rest
    IN  UpToAny(tail, {"?", "#"})

\* The query string of a URL.
QueryStringOf(url) == UpToAny(AfterFirst(UpToAny(url, {"#"}), "?"), {"#"})

\* The host is an allow-listed domain or one of its subdomains.
OnAllowedDomain(url) ==
    \E d \in resource_domains :
        HostOf(url) = d \/ EndsWith(HostOf(url), "." \o d)

SectionNames == {"tag", "category", "author", "page"}

\* The URL is a tag, category, author or pagination section, or a page of
\* search results (it carries the search parameter s).
IsListingUrl(url) ==
    \/ \E n \in SectionNames : StartsWith(PathOf(url), "/" \o n \o "/")
    \/ LET params == Split(QueryStringOf(url), "&")
       IN  \E k \in 1..Len(params) : StartsWith(params[k], "s=")

----------------------------------------------------------------------------
(* C11, C12, C13: search_geeksforgeeks (SpecDiscover).                     *)

\* C11 (as claimed): every URL search_geeksforgeeks retains is on an
\* allow-listed domain: its host is an allow-listed domain or a subdomain of
\* one, wherever else in the URL the domain name occurs.
C11_RetainedOnAllowedDomain ==
    \A i \in 1..Len(urls) : OnAllowedDomain(urls[i])

\* C12 (as claimed): no URL search_geeksforgeeks retains is a tag, category,
\* author or pagination section or a page of search results, whatever its
\* scheme and the form of its host.
C12_NoListingRetained ==
    \A i \in 1..Len(urls) : ~IsListingUrl(urls[i])

\* The URL the candidate href stands for: trimmed, made absolute when it is
\* protocol-relative or root-relative, and without its fragment.
ExpectedUrl(href) ==
    LET t == Strip(href)
        a == IF StartsWith(t, "//") THEN "https:" \o t
             ELSE IF StartsWith(t, "/") THEN "https://www.geeksforgeeks.org" \o t
             ELSE t
    IN  PieceAt(a, "#", 1)

\* The anchors examined so far that stand for the URL u.
AnchorsOf(u) ==
    {i \in 1..(linkIdx - 1) :
        /\ "href" \in DOMAIN candidate_links[i]
        /\ ExpectedUrl(candidate_links[i].href) = u}

\* C13: in every state of a search_geeksforgeeks call the retained URLs are
\* pairwise different, each one is the absolute, fragment-free URL of an
\* anchor examined so far, none is protocol-relative or root-relative or
\* carries a fragment, and they are listed in the order of their first
\* anchors.
C13_NormalizedDistinctInOrder ==
    /\ \A i, j \in 1..Len(urls) : i # j => urls[i] # urls[j]
    /\ \A i \in 1..Len(urls) :
          /\ AnchorsOf(urls[i]) # {}
          /\ ~StartsWith(urls[i], "/")
          /\ ~Contains("#", urls[i])
    /\ \A i, j \in 1..Len(urls) :
          i < j => Min(AnchorsOf(urls[i])) < Min(AnchorsOf(urls[j]))

\* A page whose anchors name one article three ways (absolute, and
\* protocol-relative with surrounding blanks and a fragment) and a second one
\* root-relative with a fragment: both articles are retained once, in order.
C13_Witness ==
    /\ pc = "discovered"
    /\ max_results = 3
    /\ Len(candidate_links) = 3
    /\ candidate_links[1] = Anchor(" //www.geeksforgeeks.org/dp/#top ")
    /\ candidate_links[2] = Anchor("https://www.geeksforgeeks.org/dp/")
    /\ candidate_links[3] = Anchor("/graph/#intro")
    /\ urls = <<"https://www.geeksforgeeks.org/dp/",
                "https://www.geeksforgeeks.org/graph/">>

----------------------------------------------------------------------------
(* C14, C15, C16, C18: search_and_scrape and create_resource_metadata      *)
(* (SpecScrape).                                                           *)

\* The character of code n.
Chr(n) == IF n < 96 THEN CharAt(AsciiLow, n - 31) ELSE CharAt(AsciiHigh, n - 96)

HexValue(c) == (CHOOSE i \in 1..16 : CharAt(HexDigits, i) = c) - 1

IsHex(c) == \E i \in 1..16 : CharAt(HexDigits, i) = c

\* e is made of unreserved characters, "+" and %XX escapes only.
IsEscaped(e) ==
    \A i \in 1..Len(e) :
        LET c == CharAt(e, i)
        IN  \/ Contains(c, QuoteSafe)
            \/ c = "+"
            \/ /\ c = "%"
               /\ i + 2 <= Len(e)
               /\ IsHex(CharAt(e, i + 1))
               /\ IsHex(CharAt(e, i + 2))

RECURSIVE Unescape(_)
\* The text a query-string value stands for.
Unescape(e) ==
    IF e = "" THEN ""
    ELSE IF CharAt(e, 1) = "+" THEN " " \o Unescape(SubSeq(e, 2, Len(e)))
    ELSE IF CharAt(e, 1) = "%"
    THEN Chr(16 * HexValue(CharAt(e, 2)) + HexValue(CharAt(e, 3)))
             \o Unescape(SubSeq(e, 4, Len(e)))
    ELSE CharAt(e, 1) \o Unescape(SubSeq(e, 2, Len(e)))

CanonicalSearchPrefix == "https://www.geeksforgeeks.org/?s="

\* url is the canonical search URL for q, with q escaped.
IsSearchUrlFor(url, q) ==
    /\ StartsWith(url, CanonicalSearchPrefix)
    /\ LET e == SubSeq(url, Len(CanonicalSearchPrefix) + 1, Len(url))
       IN  IsEscaped(e) /\ Unescape(e) = q

IsFallbackResource(r) == r.source = "geeksforgeeks_search_fallback"

\* C14 (as claimed): search_and_scrape returns the search fallback exactly
\* when tier 1 yields no URL: then the result is one resource with source
\* "geeksforgeeks_search_fallback", resource_type "search" and the canonical
\* search URL of the escaped query; when tier 1 yields a URL, no fallback
\* resource is in the result.
C14_FallbackIffTierOneEmpty ==
    pc = "scraped" =>
        IF gfg_urls = <<>>
        THEN /\ Len(scraped) = 1
             /\ IsFallbackResource(scraped[1])
             /\ scraped[1].resource_type = "search"
             /\ IsSearchUrlFor(scraped[1].url, query)
        ELSE \A k \in 1..Len(scraped) : ~IsFallbackResource(scraped[k])

\* C15 (as claimed): for every non-negative max_results search_and_scrape
\* returns at most max_results resources, and when tier 1 yields n >= 1 URLs
\* the result has min(n, max_results) resources whose urls are the first
\* tier-1 URLs in order.
C15_AtMostMaxResultsInOrder ==
    pc = "scraped" =>
        /\ Len(scraped) <= max_results
        /\ Len(gfg_urls) >= 1 =>
              /\ Len(scraped) = Min({Len(gfg_urls), max_results})
              /\ \A k \in 1..Len(scraped) : scraped[k].url = gfg_urls[k]

\* The record is the domain-aware rule-derived one for url and q.
IsDomainRecord(r, url, q) ==
    /\ r.title = q \o " - " \o PieceAt(url, "/", 3)
    /\ r.resource_type = "unknown"
    /\ r.difficulty = "intermediate"
    /\ r.estimated_time = 30
    /\ r.tags = Words(q)

\* The record is the minimal substitute for url and q.
IsMinimalRecord(r, url, q) ==
    /\ r.url = url
    /\ r.resource_type = "blog"
    /\ r.difficulty = "beginner"
    /\ r.estimated_time = 20
    /\ r.tags = Words(q)

\* C16 (as claimed): create_resource_metadata returns the domain-aware
\* record whenever the response is not a usable object (text that is not
\* JSON, or JSON that is not an object); it reports failure only when the
\* generative call itself fails, and search_and_scrape then substitutes the
\* minimal record.
C16_ShapeFailureGetsDomainRecord ==
    \A k \in 1..Len(metaLog) :
        LET call == metaLog[k]
        IN  /\ call.outcome.kind \in {"text", "nonobject"} =>
                  /\ call.returned # None
                  /\ IsDomainRecord(call.returned[1], call.url, call.query)
            /\ call.returned = None <=> call.outcome.kind = "raise"
            /\ (call.returned = None /\ k <= Len(scraped)) =>
                  IsMinimalRecord(scraped[k], call.url, call.query)

\* C18: every record create_resource_metadata returns carries the url and
\* the query it was called with, the reading of the clock as created_at and
\* the source "gemini_web_agent", whatever the response holds for those keys;
\* the calls are made with the tier-1 URLs in order and the query.
C18_RecordIsStamped ==
    \A k \in 1..Len(metaLog) :
        LET call == metaLog[k]
        IN  /\ call.url = gfg_urls[k]
            /\ call.query = query
            /\ call.returned # None =>
                  LET r == call.returned[1]
                  IN  /\ {"url", "query", "created_at", "source"} \subseteq DOMAIN r
                      /\ r.url = call.url
                      /\ r.query = call.query
                      /\ r.created_at = Isoformat(call.at)
                      /\ r.source = "gemini_web_agent"

\* A response object that holds its own url, query, created_at and source:
\* the returned record keeps the title and carries the stamps.
C18_Witness ==
    /\ pc = "scraped"
    /\ Len(metaLog) = 2
    /\ metaLog[1].outcome.kind = "text"
    /\ metaLog[2].outcome.kind = "object"
    /\ "source" \in DOMAIN metaLog[2].outcome.object
    /\ metaLog[2].outcome.object.url # metaLog[2].url
    /\ metaLog[2].returned # None
    /\ metaLog[2].returned[1].title = "Intro to DP"
    /\ metaLog[2].returned[1].url = "https://www.geeksforgeeks.org/graph/"
    /\ scraped[2] = metaLog[2].returned[1]

----------------------------------------------------------------------------
(* C17, C19, C20: the pipeline and the write (Spec).                       *)

\* C17 (as claimed): every resource that reaches categorize_resources has a
\* non-empty title and a non-empty url, whatever the generative call answers
\* during metadata synthesis.
C17_TitleAndUrlNonEmpty ==
    pc = "categorized" =>
        \A i \in 1..Len(resources) :
            /\ "title" \in DOMAIN resources[i]
            /\ resources[i].title # ""
            /\ "url" \in DOMAIN resources[i]
            /\ resources[i].url # ""

\* Every answer holds strings only.
WellFormed(answers) ==
    \A i \in 1..Len(answers) : DOMAIN answers[i] \subseteq {"question_id", "answer"}

ResultKeys ==
    {"user_profile", "search_queries", "total_resources", "resources", "generated_at"}

SixCategories ==
    {"weak_areas_improvement", "interview_preparation", "skill_development",
     "practice_problems", "technology_tutorials", "general_learning"}

\* C19: on well-formed answers process_user_and_generate_resources never
\* raises, whatever the generative calls and the searches do; until it
\* returns there is no result, and the result it returns has the five keys,
\* its resources mapping has exactly the six category keys, and
\* total_resources counts the accumulated resources.
C19_PipelineAlwaysReturnsSixCategories ==
    /\ WellFormed(user_answers) => (pc # "raised" /\ result.kind # "raised")
    /\ pc \in {"analyze_loop", "analyzed", "categorized"} => result = NoResult
    /\ pc = "pipeline_returned" =>
          /\ result.kind = "returned"
          /\ DOMAIN result.value = ResultKeys
          /\ DOMAIN result.value.resources = SixCategories
          /\ result.value.total_resources = Len(all_resources)
          /\ result.value.user_profile = profile
          /\ result.value.search_queries = search_queries

\* A run in which query generation raised, the last search raised, metadata
\* synthesis raised for one URL and answered a JSON non-object for another,
\* and the categorization call raised: the pipeline returned its result.
C19_Witness ==
    /\ pc = "pipeline_returned"
    /\ WellFormed(user_answers)
    /\ genOutcome.kind = "raise"
    /\ Len(search_queries) = 2
    /\ searchOutcome.kind = "raise"
    /\ catOutcome.kind = "raise"
    /\ \E i, j \in 1..Len(all_resources) :
          /\ all_resources[i].source = "geeksforgeeks"
          /\ all_resources[j].source = "geeksforgeeks_search_fallback"
    /\ result.value.total_resources = 3

\* C20: generate_personalized_resources writes nothing before the pipeline
\* has returned; when it returns, one document is in 'home', holding the
\* user id and the pipeline's result, and the value returned is the
\* pipeline's result extended with home_doc_id, the identifier the write
\* returned; a raising pipeline ends in the same exception with nothing
\* written, and a raising write ends in an exception and no result.
C20_OneWritePerSuccessfulRun ==
    /\ pc # "done" => (home = <<>> /\ returned = NoResult)
    /\ (pc = "done" /\ returned.kind = "returned") =>
          /\ result.kind = "returned"
          /\ dbOutcome.kind = "added"
          /\ Len(home) = 1
          /\ home[1].id = dbOutcome.id
          /\ home[1].data.user_id = user_id
          /\ \A k \in ResultKeys : home[1].data[k] = result.value[k]
          /\ DOMAIN returned.value = ResultKeys \cup {"home_doc_id"}
          /\ \A k \in ResultKeys : returned.value[k] = result.value[k]
          /\ returned.value.home_doc_id = dbOutcome.id
    /\ (pc = "done" /\ result.kind = "raised") =>
          /\ returned = Raised(result.value)
          /\ home = <<>>
          /\ dbOutcome = NoWrite
    /\ (pc = "done" /\ dbOutcome.kind = "raise") => returned.kind = "raised"
    /\ pc = "done" => returned.kind \in {"returned", "raised"}

\* A successful run for user u2 with three resources, stored as d2.
C20_Witness ==
    /\ pc = "done"
    /\ user_id = "u2"
    /\ returned.kind = "returned"
    /\ returned.value.home_doc_id = "d2"
    /\ returned.value.total_resources = 3
    /\ Len(home) = 1
    /\ home[1].data.total_resources = 3

----------------------------------------------------------------------------
(* SpecApi: the endpoints of src/main.py that store answers, generate      *)
(* resources and return the home document, over the Firestore collections  *)
(* 'users', 'question_answers' and 'home'. A collection is the sequence of *)
(* its documents in the order stream() yields them, the order of their     *)
(* identifiers; add() gives a random identifier, so a new document may     *)
(* come before or after the older ones. The clock stamps SERVER_TIMESTAMP  *)
(* fields and advances with every write.                                   *)

MaxSubmissions == 2

MaxPipelineCalls == 2

\* Python: str.upper() of one character
UpperChar(c) ==
    IF \E i \in 1..Len(LowerLetters) : CharAt(LowerLetters, i) = c
    THEN CharAt(UpperLetters,
                CHOOSE i \in 1..Len(LowerLetters) : CharAt(LowerLetters, i) = c)
    ELSE c

IsLetter(c) == c # "" /\ (Contains(c, UpperLetters) \/ Contains(c, LowerLetters))

RECURSIVE TitleFrom(_, _)
TitleFrom(s, i) ==
    IF i > Len(s)
    THEN ""
    ELSE (IF i = 1 \/ ~IsLetter(CharAt(s, i - 1))
          THEN UpperChar(CharAt(s, i))
          ELSE LowerChar(CharAt(s, i))) \o TitleFrom(s, i + 1)

\* Python: s.title()
Title(s) == TitleFrom(s, 1)

RECURSIVE Unquote(_)
\* urllib.parse.unquote: %XX escapes are decoded, all else is kept.
Unquote(s) ==
    IF s = "" THEN ""
    ELSE IF /\ CharAt(s, 1) = "%"
            /\ Len(s) >= 3
            /\ IsHex(UpperChar(CharAt(s, 2)))
            /\ IsHex(UpperChar(CharAt(s, 3)))
    THEN Chr(16 * HexValue(UpperChar(CharAt(s, 2))) + HexValue(UpperChar(CharAt(s, 3))))
             \o Unquote(SubSeq(s, 4, Len(s)))
    ELSE CharAt(s, 1) \o Unquote(SubSeq(s, 2, Len(s)))

\* Python: xs.insert(pos - 1, x)
InsertAt(xs, x, pos) == SubSeq(xs, 1, pos - 1) \o <<x>> \o SubSeq(xs, pos, Len(xs))

\* Python: del xs[pos - 1]
RemoveAt(xs, pos) == SubSeq(xs, 1, pos - 1) \o SubSeq(xs, pos + 1, Len(xs))

\* A variant that leaves the documents in the order of the stream.
KeepStreamOrder(dicts, field) == dicts

RECURSIVE SortNewestFirst(_, _)
\* dicts.sort(key=lambda x: x.get(field, 0), reverse=True): the greatest key
\* first, equal keys in their former order.
SortNewestFirst(dicts, field) ==
    IF dicts = <<>>
    THEN <<>>
    ELSE LET key(i) == Get(dicts[i], field, 0)
             top    == CHOOSE i \in 1..Len(dicts) :
                          /\ \A j \in 1..Len(dicts) : key(j) <= key(i)
                          /\ \A j \in 1..(i - 1) : key(j) < key(i)
         IN  <<dicts[top]>> \o SortNewestFirst(RemoveAt(dicts, top), field)

\* raise HTTPException(status_code, detail), and a returned body.
HttpError(status, detail) == [status |-> status, body |-> [detail |-> detail]]

HttpOk(body) == [status |-> 200, body |-> body]

\* The identifiers add() gives, by the number of documents added before.
UserIdNames == <<"u1", "u2">>

\* The second document of a collection comes after the first in the
\* stream, the third before both.
SubmissionIdNames == <<"s2", "s3", "s1", "s4">>

HomeIdNames == <<"h2", "h3", "h1", "h4">>

\* The identifiers in the order of the streams.
IdOrder == <<"h1", "h2", "h3", "h4", "s1", "s2", "s3", "s4">>

Rank(id) == CHOOSE i \in 1..Len(IdOrder) : IdOrder[i] = id

\* add(): the document takes its place in the order of the identifiers.
AddDoc(docs, doc) ==
    InsertAt(docs, doc,
             1 + Cardinality({j \in 1..Len(docs) : Rank(docs[j].id) < Rank(doc.id)}))

\* users_ref.where('email', '==', decoded_email).limit(1)
UsersByEmail(us, email) == Take(SelectSeq(us, LAMBDA u : u.email = email), 1)

\* Lines 199-212: the user of the email, created when there is none.
UserFor(us, email) ==
    LET found == UsersByEmail(us, email)
        id    == UserIdNames[Len(us) + 1]
    IN  IF found = <<>>
        THEN [users        |-> Append(us, [id    |-> id,
                                           name  |-> Title(Split(email, "@")[1]),
                                           email |-> email,
                                           age   |-> None]),
              user_id      |-> id,
              user_created |-> TRUE]
        ELSE [users        |-> us,
              user_id      |-> found[1].id,
              user_created |-> FALSE]

\* answers_data, lines 215-226, with the timestamp the server sets.
AnswersData(body, t) ==
    [email        |-> body.email,
     answers      |-> [i \in 1..Len(body.answers) |->
                          [question_id   |-> body.answers[i].question_id,
                           question_text |-> body.answers[i].question_text,
                           answer        |-> body.answers[i].answer]],
     submitted_at |-> t]

\* db.collection('users').document(user_id).get().exists
UserExists(us, uid) == \E i \in 1..Len(us) : us[i].id = uid

\* list(answers_ref.stream()), each document as to_dict() gives it.
AnswersDocs(subs, uid) ==
    LET mine == SelectSeq(subs, LAMBDA d : d.user_id = uid)
    IN  [i \in 1..Len(mine) |-> mine[i].data]

\* Lines 302-310: the answers of the submission sorted first.
LatestAnswers(docs) == Get(SortNewestFirst(docs, "submitted_at")[1], "answers", <<>>)

\* A variant that takes every answer list for a usable one.
AnswersNeverMissing(answers) == FALSE

\* if not user_answers
AnswersMissing(answers) == answers = <<>>

\* The document the server stores for home_doc_data: SERVER_TIMESTAMP is
\* replaced by the time of the write.
Stored(data, t) == [data EXCEPT !.created_at = t]

\* Lines 316-323: the body of the generate endpoint; the keys of the
\* resources dict as a set.
GenerateBody(uid, data) ==
    [message         |-> "Personalized resources generated successfully",
     user_id         |-> uid,
     home_doc_id     |-> data.home_doc_id,
     total_resources |-> data.total_resources,
     categories      |-> DOMAIN data.resources,
     generated_at    |-> data.generated_at]

\* Lines 399-420: the home documents of the user with their identifiers,
\* sorted, the first one returned.
HomeDocsOf(docs, uid) ==
    LET mine == SelectSeq(docs, LAMBDA d : d.data.user_id = uid)
    IN  [i \in 1..Len(mine) |-> Update(mine[i].data, [home_doc_id |-> mine[i].id])]

LatestHome(docs, uid) == SortNewestFirst(HomeDocsOf(docs, uid), "created_at")[1]

\* What the collaborators answer to the pipeline call of an endpoint: query
\* generation raises, every search does the same and every metadata call
\* answers the titled object, the categorization call raises; the clock is
\* read once for each query and once at the return.
ApiHeard(answers, search, t) ==
    LET n == Len(GenerateSearchQueries(ExtractProfile(answers), RaiseOutcome))
        meta == MetaOutcome("object", [title |-> "Intro to DP",
                                       description |-> "An article"])
    IN  [gen     |-> RaiseOutcome,
         queries |-> [i \in 1..n |-> [search |-> search,
                                      metas  |-> <<meta>>,
                                      at     |-> t + i - 1]],
         cat     |-> CatOutcome("raise", NoMapping),
         at      |-> t + n]

\* The path arguments: the emails, one of them with an escape, and the user
\* identifiers, one of them of no user.
PathEmails == {"asha@x.io", "ravi.k%40x.io"}

PathUserIds == {"u1", "u2", "u9"}

ApiQuestion(id, answer) ==
    [question_id |-> id, question_text |-> "?", answer |-> answer]

\* The answer lists of the request bodies: none, and two different ones;
\* the second email submits the last one only.
BodyAnswers ==
    {<<>>,
     <<ApiQuestion("onboarding_weak_areas", "DSA")>>,
     <<ApiQuestion("onboarding_name", "Asha"),
       ApiQuestion("onboarding_target_companies", "Google")>>}

BodyAnswersOf(email) ==
    IF email = "asha@x.io"
    THEN BodyAnswers
    ELSE {<<ApiQuestion("onboarding_name", "Asha"),
            ApiQuestion("onboarding_target_companies", "Google")>>}

\* The search of the endpoints' pipeline calls finds one article.
ApiSearchOutcomes ==
    {SearchOutcome("page", <<Anchor("https://www.geeksforgeeks.org/dp/")>>)}

InitApi ==
    /\ pc = "api"
    /\ user_answers = <<>>
    /\ idx = 1
    /\ profile = EmptyProfile
    /\ genOutcome = RaiseOutcome
    /\ search_queries = <<>>
    /\ resources = <<>>
    /\ catOutcome = CatOutcome("none", NoMapping)
    /\ categories = NoCategories
    /\ DiscoverIdle
    /\ ScrapeIdle
    /\ PipelineIdle
    /\ PersistIdle
    /\ RunsIdle
    /\ ApiIdle
    /\ now = 0

\* POST /users/{email}/answers, lines 188-242.
StoreUserAnswers ==
    /\ Len(submissions) < MaxSubmissions
    /\ \E email \in PathEmails :
       \E answers \in BodyAnswersOf(email) :
          LET decoded_email == Unquote(email)
              body          == [email |-> decoded_email, answers |-> answers]
              user          == UserFor(users, decoded_email)
              answers_id    == SubmissionIdNames[Len(submissions) + 1]
          IN  /\ users' = user.users
              /\ submissions' = AddDoc(submissions,
                                        [id      |-> answers_id,
                                         user_id |-> user.user_id,
                                         data    |-> AnswersData(body, now)])
              /\ response' =
                    [endpoint |-> "store_user_answers",
                     request  |-> [email |-> email, answers |-> answers]]
                    @@ HttpOk([message       |-> "User answers stored successfully",
                               email         |-> decoded_email,
                               user_id       |-> user.user_id,
                               user_created  |-> user.user_created,
                               answers_id    |-> answers_id,
                               total_answers |-> Len(answers)])
    /\ now' = now + 1
    /\ UNCHANGED <<pc, profileVars, queryVars, categorizeVars, discoverVars,
                   scrapeVars, pipelineVars, persistVars, runVars, calls>>

\* POST /generate-resources/{user_id}, lines 281-330, up to the three
\* HTTPExceptions it raises itself.
GenerateRefuse ==
    /\ \E uid \in PathUserIds :
          LET docs == AnswersDocs(submissions, uid)
          IN  /\ IF UserExists(users, uid) /\ docs # <<>>
                 THEN AnswersMissing(LatestAnswers(docs))
                 ELSE TRUE
              /\ response' =
                    [endpoint |-> "generate_resources", request |-> [user_id |-> uid]]
                    @@ (IF ~UserExists(users, uid)
                        THEN HttpError(404, "User not found")
                        ELSE IF docs = <<>>
                        THEN HttpError(404, "No onboarding answers found for this user")
                        ELSE HttpError(400, "No answers found in the latest submission"))
    /\ UNCHANGED <<pc, profileVars, queryVars, categorizeVars, discoverVars,
                   scrapeVars, pipelineVars, persistVars, runVars,
                   users, submissions, calls, now>>

\* POST /generate-resources/{user_id}, lines 281-330, with the call of
\* generate_personalized_resources (agent.py 522-563): the agent, whose
\* construction may raise when there is none, the pipeline, the write to
\* 'home'; an exception becomes the status 500.
GenerateResources ==
    /\ calls < MaxPipelineCalls
    /\ \E uid \in PathUserIds :
          LET docs == AnswersDocs(submissions, uid)
          IN  /\ UserExists(users, uid)
              /\ docs # <<>>
              /\ ~AnswersMissing(LatestAnswers(docs))
              /\ user_id' = uid
              /\ user_answers' = LatestAnswers(docs)
              /\ \/ /\ gemini_agent = None
                    /\ gemini_agent' = None
                    /\ result' = NoResult
                    /\ dbOutcome' = NoWrite
                    /\ returned' = Raised("GenerativeModel failed")
                    /\ response' =
                          [endpoint |-> "generate_resources",
                           request  |-> [user_id |-> uid]]
                          @@ HttpError(500, "Error generating resources: "
                                                \o "GenerativeModel failed")
                    /\ UNCHANGED <<home, now>>
                 \/ \E search \in ApiSearchOutcomes,
                       answers \in {LatestAnswers(docs)} :
                       \E heard \in {ApiHeard(answers, search, now)} :
                       \E data \in {Alone(answers, heard)} :
                       LET written == heard.at + 1
                           id      == HomeIdNames[Len(home) + 1]
                           doc     == [id   |-> id,
                                       data |-> Stored(HomeDocData(uid, data), written),
                                       generated_from |-> answers]
                       IN  /\ gemini_agent' = GetGeminiAgent(gemini_agent)
                           /\ result' = Returned(data)
                           /\ \E outcome \in {"added", "raise"}, stored \in BOOLEAN :
                                 /\ outcome = "added" => stored
                                 /\ dbOutcome' = IF outcome = "added"
                                                 THEN Added(id)
                                                 ELSE WriteRaised(stored)
                                 /\ home' = IF stored THEN AddDoc(home, doc) ELSE home
                                 /\ returned' = IF outcome = "added"
                                                THEN Returned(WithHomeDocId(data, id))
                                                ELSE Raised("write failed")
                                 /\ response' =
                                       [endpoint |-> "generate_resources",
                                        request  |-> [user_id |-> uid]]
                                       @@ (IF outcome = "added"
                                           THEN HttpOk(GenerateBody(uid,
                                                    WithHomeDocId(data, id)))
                                           ELSE HttpError(500,
                                                    "Error generating resources: "
                                                        \o "write failed"))
                           /\ now' = written + 1
    /\ calls' = calls + 1
    /\ UNCHANGED <<pc, idx, profile, queryVars, categorizeVars, discoverVars,
                   scrapeVars, qIdx, all_resources, loop, run, users, submissions>>

\* GET /home/{user_id}, lines 391-425.
GetHome ==
    /\ \E uid \in PathUserIds :
          response' =
             [endpoint |-> "get_user_home_resources", request |-> [user_id |-> uid]]
             @@ (IF HomeDocsOf(home, uid) = <<>>
                 THEN HttpError(404, "No resources found for this user")
                 ELSE HttpOk(LatestHome(home, uid)))
    /\ UNCHANGED <<pc, profileVars, queryVars, categorizeVars, discoverVars,
                   scrapeVars, pipelineVars, persistVars, runVars,
                   users, submissions, calls, now>>

NextApi ==
    \/ StoreUserAnswers
    \/ GenerateRefuse
    \/ GenerateResources
    \/ GetHome

SpecApi == InitApi /\ [][NextApi]_vars

----------------------------------------------------------------------------
(* Properties of the concurrent calls.                                     *)

\* The steps of a call that belong to the discovery for a query.
DiscoverySteps == {"search", "found", "metadata"}

\* C21: within one pipeline call the queries are processed one after the
\* other in generation order: the steps of a call never go back to an
\* earlier query, the search for query i+1 starts only after the discovery
\* for query i has returned and its pacing sleep has begun and ended, every
\* metadata call belongs to the query whose search was started last, the
\* categorization starts only after the sleep of the last query has ended,
\* and the accumulator is the concatenation, in query order, of the lists
\* search_and_scrape returned, each holding resources of its own query.
C21_QueriesSequentialInOrder ==
    \A r \in Runs :
       LET me == run[r]
           ev == me.events
           n  == Len(me.search_queries)
       IN  /\ \A a, b \in 1..Len(ev) : a < b => ev[a].q <= ev[b].q
           /\ \A k \in 1..Len(ev) :
                 /\ (ev[k].ev = "search" /\ ev[k].q > 1) =>
                       \E s, w \in 1..(k - 1) :
                          /\ s < w
                          /\ ev[s] = Event("sleep", ev[k].q - 1)
                          /\ ev[w] = Event("woke", ev[k].q - 1)
                 /\ ev[k].ev \in {"found", "metadata", "sleep"} =>
                       \E s \in 1..(k - 1) : ev[s] = Event("search", ev[k].q)
                 /\ ev[k].ev \in DiscoverySteps => ev[k].q \in 1..n
                 /\ ev[k].ev = "categorize" =>
                       /\ ev[k].q = n + 1
                       /\ \A i \in 1..n :
                             \E s, w \in 1..(k - 1) :
                                /\ s < w
                                /\ ev[s] = Event("sleep", i)
                                /\ ev[w] = Event("woke", i)
           /\ me.all_resources = Flatten(me.returns)
           /\ Len(me.returns) <= n
           /\ \A i \in 1..Len(me.returns) :
                 /\ me.returns[i] # <<>>
                 /\ \A j \in 1..Len(me.returns[i]) :
                       me.returns[i][j].query = me.search_queries[i]

\* A call with two queries has returned; each query had its search and two
\* metadata calls, and the accumulator holds two resources of the first
\* query followed by two of the second.
C21_Witness ==
    \E r \in Runs :
       LET me == run[r]
       IN  /\ me.pc = "done"
           /\ Len(me.search_queries) = 2
           /\ me.search_queries[1] # me.search_queries[2]
           /\ Len(me.all_resources) = 4
           /\ me.all_resources[2].query = me.search_queries[1]
           /\ me.all_resources[3].query = me.search_queries[2]
           /\ Cardinality({k \in 1..Len(me.events) : me.events[k].ev = "metadata"}) = 4

\* The calls that have left their start.
Started == {r \in Runs : run[r].pc # "start"}

\* The number of queries whose resources a call has accumulated.
Accumulated(me) ==
    CASE me.pc \in {"start", "loop", "searching", "building"} -> me.qIdx - 1
      [] me.pc = "sleeping" -> me.qIdx
      [] OTHER -> Len(me.search_queries)

\* C22: concurrent calls on the singleton agent do not interfere: the agent
\* is created once and never altered; a call that has not started holds
\* nothing; the profile, the query list and the accumulator of a call are
\* at every moment what its own answers and the responses it received
\* itself determine, and the result it returns is the result the call
\* produces alone on the same answers and responses.
C22_RunsDoNotInterfere ==
    /\ gemini_agent = (IF Started = {} THEN None ELSE Some(NewAgent))
    /\ \A r \in Runs :
          LET me == run[r]
          IN  /\ me.pc = "start" => me = NewRun(me.user_answers)
              /\ me.pc # "start" =>
                    /\ me.profile = ExtractProfile(me.user_answers)
                    /\ me.search_queries =
                           GenerateSearchQueries(me.profile, me.heard.gen)
              /\ me.all_resources =
                     AloneResources(me.search_queries, me.heard, Accumulated(me))
              /\ me.pc = "done" =>
                    me.result = Returned(Alone(me.user_answers, me.heard))
              /\ me.pc # "done" => me.result = NoResult

\* Two calls on different answers have returned different results; the
\* fetch of r2 returned between the two fetches of r1, and each call built
\* resources from metadata.
C22_Witness ==
    /\ run["r1"].pc = "done"
    /\ run["r2"].pc = "done"
    /\ run["r1"].user_answers # run["r2"].user_answers
    /\ Len(run["r1"].search_queries) = 2
    /\ Len(run["r2"].search_queries) = 1
    /\ run["r1"].heard.queries[1].at < run["r2"].heard.queries[1].at
    /\ run["r2"].heard.queries[1].at < run["r1"].heard.queries[2].at
    /\ Len(run["r1"].all_resources) = 4
    /\ Len(run["r2"].all_resources) = 2
    /\ run["r1"].result.value.total_resources = 4
    /\ run["r2"].result.value.total_resources = 2
    /\ run["r1"].result.value.user_profile # run["r2"].result.value.user_profile

----------------------------------------------------------------------------
(* Counts of the pipeline's result.                                        *)

\* The number of resources in the six category lists.
RECURSIVE SumOfLengths(_, _)
SumOfLengths(cats, names) ==
    IF names = {}
    THEN 0
    ELSE LET c == CHOOSE x \in names : TRUE
         IN  Len(cats[c]) + SumOfLengths(cats, names \ {c})

\* C24: every search_and_scrape call of the pipeline returns between one
\* and three resources and the accumulator grows by exactly that list; so
\* after k queries the accumulator holds between k and 3k resources, and
\* the returned total_resources lies between the number of queries and
\* three times that number (at most three times the query limit), is 0
\* exactly when there are no queries, and is the sum of the lengths of the
\* six category lists.
C24_TotalWithinQueryBounds ==
    /\ [](/\ Len(search_queries) <= QueryLimit
          /\ (pc \in {"analyzed", "categorized", "pipeline_returned"}) =>
                /\ qIdx - 1 <= Len(all_resources)
                /\ Len(all_resources) <= PipelineMaxResults * (qIdx - 1)
          /\ result.kind = "returned" =>
                LET total == result.value.total_resources
                    n     == Len(result.value.search_queries)
                IN  /\ n <= total
                    /\ total <= 3 * n
                    /\ total <= 3 * QueryLimit
                    /\ (total = 0) <=> (n = 0)
                    /\ total = SumOfLengths(result.value.resources, SixCategories))
    /\ [][qIdx' # qIdx =>
             /\ qIdx' = qIdx + 1
             /\ Len(scraped') \in 1..3
             /\ all_resources' = all_resources \o scraped']_vars

\* A run with two queries has returned: the first search gave three of the
\* four articles of its page, the second raised and gave the fallback; the
\* total is 4 and the general category holds them all.
C24_Witness ==
    /\ pc = "pipeline_returned"
    /\ Len(search_queries) = 2
    /\ searchOutcome.kind = "raise"
    /\ Len(scraped) = 1
    /\ Len(all_resources) = 4
    /\ result.value.total_resources = 4
    /\ Len(result.value.resources.general_learning) = 4

\* A run without queries has returned a total of 0.
C24_WitnessNoQueries ==
    /\ pc = "pipeline_returned"
    /\ search_queries = <<>>
    /\ result.value.total_resources = 0

----------------------------------------------------------------------------
(* Properties of the endpoints.                                            *)

\* The submissions and the home documents of a user, as sets.
SubmissionsOf(uid) ==
    {submissions[i] : i \in {j \in 1..Len(submissions) : submissions[j].user_id = uid}}

HomeOf(uid) ==
    {home[i] : i \in {j \in 1..Len(home) : home[j].data.user_id = uid}}

\* The one submitted last, and the one written last.
NewestSubmission(uid) ==
    CHOOSE d \in SubmissionsOf(uid) :
       \A e \in SubmissionsOf(uid) : e.data.submitted_at <= d.data.submitted_at

NewestHome(uid) ==
    CHOOSE d \in HomeOf(uid) :
       \A e \in HomeOf(uid) : e.data.created_at <= d.data.created_at

\* The email a path segment stands for.
EmailOfPath(segment) == IF segment = "ravi.k%40x.io" THEN "ravi.k@x.io" ELSE segment

FromGenerate == response.endpoint = "generate_resources"

\* C23: the store endpoint answers with the identifier of the user of the
\* email and total_answers = the number of answers submitted, and the
\* submission it stored is that user's newest; a successful generation for a
\* user ran the pipeline on the answers of the user's newest submission and
\* wrote a home document of that user, the newest one, built from those
\* answers; GET /home/{user_id} answers 404 only when the user has no home
\* document and otherwise returns the user's newest home document with its
\* identifier, holding user_profile, total_resources and the six category
\* lists; every home document holds the profile of the answers it was
\* generated from.
C23_HomeReturnsLatestGeneration ==
    /\ response.endpoint = "store_user_answers" =>
          /\ response.status = 200
          /\ response.body.total_answers = Len(response.request.answers)
          /\ \E i \in 1..Len(users) :
                /\ users[i].id = response.body.user_id
                /\ users[i].email = EmailOfPath(response.request.email)
          /\ LET newest == NewestSubmission(response.body.user_id)
             IN  /\ newest.id = response.body.answers_id
                 /\ Len(newest.data.answers) = Len(response.request.answers)
                 /\ \A k \in 1..Len(newest.data.answers) :
                       newest.data.answers[k] = response.request.answers[k]
    /\ \A i, j \in 1..Len(users) : users[i].email = users[j].email => i = j
    /\ (FromGenerate /\ response.status = 200) =>
          LET uid == response.request.user_id
          IN  /\ user_answers = NewestSubmission(uid).data.answers
              /\ HomeOf(uid) # {}
              /\ NewestHome(uid).id = response.body.home_doc_id
              /\ NewestHome(uid).generated_from = user_answers
              /\ NewestHome(uid).data.total_resources = response.body.total_resources
              /\ response.body.user_id = uid
    /\ response.endpoint = "get_user_home_resources" =>
          LET uid == response.request.user_id
          IN  /\ response.status \in {200, 404}
              /\ response.status = 404 <=> HomeOf(uid) = {}
              /\ response.status = 200 =>
                    /\ response.body.home_doc_id = NewestHome(uid).id
                    /\ response.body.user_id = uid
                    /\ \A k \in DOMAIN NewestHome(uid).data :
                          response.body[k] = NewestHome(uid).data[k]
                    /\ {"user_profile", "total_resources", "resources"}
                           \subseteq DOMAIN response.body
                    /\ DOMAIN response.body.resources = SixCategories
                    /\ response.body.user_profile =
                           ExtractProfile(NewestHome(uid).generated_from)
    /\ \A i \in 1..Len(home) :
          /\ home[i].data.user_profile = ExtractProfile(home[i].generated_from)
          /\ home[i].generated_from # <<>>
          /\ home[i].data.total_resources =
                 SumOfLengths(home[i].data.resources, SixCategories)

\* The user u1 submitted twice and generated after each submission; in the
\* streams the newer submission and the newer home document come second;
\* GET /home/u1 returned the second home document, generated from the
\* second submission, whose answers differ from those of the first.
C23_Witness ==
    /\ response.endpoint = "get_user_home_resources"
    /\ response.status = 200
    /\ response.request.user_id = "u1"
    /\ Len(submissions) = 2
    /\ Len(home) = 2
    /\ \A i \in 1..2 : submissions[i].user_id = "u1" /\ home[i].data.user_id = "u1"
    /\ submissions[1].data.submitted_at < submissions[2].data.submitted_at
    /\ home[1].data.created_at < home[2].data.created_at
    /\ submissions[1].data.answers # submissions[2].data.answers
    /\ home[1].generated_from = submissions[1].data.answers
    /\ home[2].generated_from = submissions[2].data.answers
    /\ response.body.home_doc_id = home[2].id
    /\ response.body.user_profile # home[1].data.user_profile

============================================================================
